---- MODULE Spec2Model ----
(***************************************************************************)
(* KrishiMitra: the mounted HTTP API (farmers, health, WhatsApp webhook    *)
(* verification) over its DynamoDB table, the deployment CLI, and the      *)
(* construction of the farmer domain models.                               *)
(*                                                                         *)
(* Encodings.  An Optional[T] is a sequence: <<>> is Python's None and     *)
(* <<v>> is the value v.  A float is an integer number of tenths (268 is   *)
(* 26.8).  Text that a regular expression or an encoder looks into (phone  *)
(* numbers, the webhook challenge, DynamoDB "N" strings) is a sequence of  *)
(* one-character strings; every other text is an opaque string.            *)
(***************************************************************************)
EXTENDS Integers, Sequences, FiniteSets, TLC

VARIABLES
    settings,     \* core/config.py Settings, loaded once per process
    table,        \* the farmer-profiles table: farmer id -> Optional[item]
    req,          \* the request the API served last
    resp,         \* the response it gave
    storeCalls,   \* the store calls made while serving it, with their outcomes
    dpc,          \* deployment CLI: position in main()
    dargs,        \* deployment CLI: the command line
    dran,         \* deployment CLI: the steps run so far, in order
    dfailed,      \* deployment CLI: Optional[the step that failed]
    dexit,        \* deployment CLI: Optional[process exit code]
    built,        \* the outcome of the last domain-model construction
    creators,     \* concurrent create operations: each one's position and outcome
    puts,         \* the creators whose put_item wrote the table, in order
    sm,           \* core/database/session_manager.py SessionManager: its cached
                  \* client, the clients constructed, the sessions open
    ddl,          \* DynamoDBSchemas.create_all_tables: its locals and position,
                  \* and the tables of the store
    wa,           \* the WhatsApp webhook delivery in hand: payload, position,
                  \* messages dispatched and acknowledgements sent
    now,          \* the reading datetime.utcnow() gives at this moment
    updaters,     \* concurrent update operations: each one's position and outcome
    applied,      \* the updaters whose update_item wrote the stored item, in order
    repo,         \* the last call of core/database.py DynamoDBClient: what the
                  \* store did and what the method returned or raised
    inst,         \* a live domain-model instance and the outcome of the last
                  \* construction of or assignment to it
    batch,        \* DynamoDBClient.batch_write_items: its locals and position
    util          \* the utility call in hand: its function, input and result

apiVars    == <<settings, table, req, resp, storeCalls>>
deployVars == <<dpc, dargs, dran, dfailed, dexit>>
modelVars  == <<built>>
utilVars   == <<util>>
batchVars  == <<batch>>
instVars   == <<inst>>
concVars   == <<creators, puts>>
clockVars  == <<now>>
updVars    == <<updaters, applied, repo>>
svcVars    == <<sm, ddl, wa>>
extVars    == <<utilVars, batchVars, instVars, concVars, clockVars, updVars,
                svcVars>>
vars       == <<settings, table, req, resp, storeCalls,
                dpc, dargs, dran, dfailed, dexit, built, creators, puts, sm, ddl, wa, now, updaters, applied, repo, inst,
                batch, util>>

None == <<>>
Some(v) == <<v>>

----------------------------------------------------------------------------
(* Bounds of the model *)

MaxCrops == 2        \* crops per submitted farm
MaxTime == 2         \* distinct readings of datetime.utcnow()
MaxMockScan == 101   \* most items a mocked scan reports
MaxDay == 3          \* distinct calendar days of a crop's dates
MaxBatchItems == 51  \* most items handed to one batch write
MaxCreators == 3     \* create operations in flight at once
MaxUpdaters == 2     \* update operations in flight at once
MaxClock == 2        \* the last reading of the clock
MaxMessages == 2     \* most messages added to one conversation
MaxClients == 3      \* most store clients constructed in one process
MaxEntries == 2      \* most entries of a webhook payload

----------------------------------------------------------------------------
(* Python's str(float) and float(str) on numbers with one decimal place *)

Digits == <<"0", "1", "2", "3", "4", "5", "6", "7", "8", "9">>

DigitChar(d) == Digits[d + 1]

IsDigit(c) == \E d \in 0..9 : Digits[d + 1] = c

DigitVal(c) == CHOOSE d \in 0..9 : Digits[d + 1] = c

RECURSIVE NatStr(_)
NatStr(n) == IF n < 10 THEN <<DigitChar(n)>>
             ELSE NatStr(n \div 10) \o <<DigitChar(n % 10)>>

Abs(x) == IF x < 0 THEN -x ELSE x

FloatStr(x) ==
    (IF x < 0 THEN <<"-">> ELSE <<>>)
        \o NatStr(Abs(x) \div 10) \o <<".">> \o <<DigitChar(Abs(x) % 10)>>

RECURSIVE ParseNat(_)
ParseNat(s) == IF s = <<>> THEN 0
               ELSE 10 * ParseNat(SubSeq(s, 1, Len(s) - 1)) + DigitVal(s[Len(s)])

ParseFloat(s) ==
    LET neg  == Len(s) > 0 /\ s[1] = "-"
        body == IF neg THEN SubSeq(s, 2, Len(s)) ELSE s
        dot  == CHOOSE i \in 1..Len(body) : body[i] = "."
        mag  == 10 * ParseNat(SubSeq(body, 1, dot - 1))
                    + ParseNat(SubSeq(body, dot + 1, Len(body)))
    IN IF neg THEN -mag ELSE mag

(* datetime.isoformat() and datetime.fromisoformat() *)
IsoFormat(t) == <<"iso">> \o NatStr(t)

FromIsoFormat(s) == ParseNat(SubSeq(s, 2, Len(s)))

----------------------------------------------------------------------------
(* api/v1/farmers.py: request and response models *)

ScanCap == 100

\* phone_number: str = Field(pattern="^[+]?[1-9]\\d{1,14}$")
ApiPhonePattern(s) ==
    LET r == IF Len(s) > 0 /\ s[1] = "+" THEN Tail(s) ELSE s
    IN /\ Len(r) >= 2
       /\ Len(r) <= 15
       /\ IsDigit(r[1])
       /\ r[1] # "0"
       /\ \A i \in 2..Len(r) : IsDigit(r[i])

\* models/farmer.py ContactInfo.primary_phone and core/models/farmer.py
\* PersonalInfo.phone_number: ^\+91[6-9]\d{9}$
IndianMobilePattern(s) ==
    /\ Len(s) = 13
    /\ s[1] = "+"
    /\ s[2] = "9"
    /\ s[3] = "1"
    /\ s[4] \in {"6", "7", "8", "9"}
    /\ \A i \in 5..13 : IsDigit(s[i])

RiskTolerancePattern(s) == s \in {"low", "medium", "high"}

LanguagePattern(s) == s \in {"hi", "ta", "te", "bn", "mr", "gu", "pa"}

\* CropInfo: area: float = Field(gt=0)
ApiCropInfoErrors(crop) ==
    IF crop.area > 0 THEN {} ELSE {"farm_details.crops.area"}

\* FarmDetails: total_land_area: float = Field(gt=0); crops: List[CropInfo]
ApiFarmDetailsErrors(fd) ==
    (IF fd.total_land_area > 0 THEN {} ELSE {"farm_details.total_land_area"})
        \cup UNION {ApiCropInfoErrors(fd.crops[i]) : i \in 1..Len(fd.crops)}

ApiPreferencesErrors(pr) ==
    (IF RiskTolerancePattern(pr.risk_tolerance) THEN {}
     ELSE {"preferences.risk_tolerance"})
        \cup (IF LanguagePattern(pr.preferred_language) THEN {}
              ELSE {"preferences.preferred_language"})

\* FarmerProfile: the fields whose constraints the request body violates
ApiFarmerProfileErrors(p) ==
    (IF ApiPhonePattern(p.phone_number) THEN {} ELSE {"phone_number"})
        \cup ApiFarmDetailsErrors(p.farm_details)
        \cup ApiPreferencesErrors(p.preferences)

\* FarmerProfileResponse(farmer_id=..., ..., created_at=..., updated_at=...)
ApiFarmerProfileResponse(id, name, phone, location, farm_details, preferences,
                         created, updated) ==
    [farmer_id |-> id, name |-> name, phone_number |-> phone,
     location |-> location, farm_details |-> farm_details,
     preferences |-> preferences, created_at |-> created, updated_at |-> updated]

----------------------------------------------------------------------------
(* create_farmer_profile: the DynamoDB item built from the request *)

CropItem(crop) ==
    [M |-> [cropType |-> [S |-> crop.crop_type],
            area |-> [N |-> FloatStr(crop.area)]]]

LocationItem(loc) ==
    [state |-> [S |-> loc.state],
     district |-> [S |-> loc.district],
     village |-> [S |-> loc.village]]
      @@ (IF loc.latitude # None
          THEN "latitude" :> [N |-> FloatStr(loc.latitude[1])] ELSE <<>>)
      @@ (IF loc.longitude # None
          THEN "longitude" :> [N |-> FloatStr(loc.longitude[1])] ELSE <<>>)

FarmerItem(p, id, t) ==
    [farmerId |-> [S |-> id],
     name |-> [S |-> p.name],
     phoneNumber |-> [S |-> p.phone_number],
     location |-> [M |-> LocationItem(p.location)],
     farmDetails |-> [M |->
        [totalLandArea |-> [N |-> FloatStr(p.farm_details.total_land_area)],
         soilType |-> [S |-> p.farm_details.soil_type],
         irrigationType |-> [S |-> p.farm_details.irrigation_type],
         crops |-> [L |-> [i \in 1..Len(p.farm_details.crops) |->
                              CropItem(p.farm_details.crops[i])]]]],
     preferences |-> [M |->
        [organicFarming |-> [BOOL |-> p.preferences.organic_farming],
         riskTolerance |-> [S |-> p.preferences.risk_tolerance],
         preferredLanguage |-> [S |-> p.preferences.preferred_language]]],
     createdAt |-> [S |-> IsoFormat(t)],
     updatedAt |-> [S |-> IsoFormat(t)]]

(* get_farmer_profile / list_farmer_profiles: the item parsed back *)

ParseCrop(c) ==
    [crop_type |-> c.M.cropType.S, area |-> ParseFloat(c.M.area.N),
     planting_date |-> None, expected_harvest |-> None]

ParseLocation(m) ==
    [state |-> m.state.S, district |-> m.district.S, village |-> m.village.S,
     latitude |-> IF "latitude" \in DOMAIN m
                  THEN Some(ParseFloat(m.latitude.N)) ELSE None,
     longitude |-> IF "longitude" \in DOMAIN m
                   THEN Some(ParseFloat(m.longitude.N)) ELSE None]

ParseFarmDetails(m) ==
    [total_land_area |-> ParseFloat(m.totalLandArea.N),
     soil_type |-> m.soilType.S,
     irrigation_type |-> m.irrigationType.S,
     crops |-> [i \in 1..Len(m.crops.L) |-> ParseCrop(m.crops.L[i])]]

ParsePreferences(m) ==
    [organic_farming |-> m.organicFarming.BOOL,
     risk_tolerance |-> m.riskTolerance.S,
     preferred_language |-> m.preferredLanguage.S]

ParseFarmerItem(id, item) ==
    ApiFarmerProfileResponse(id, item.name.S, item.phoneNumber.S,
        ParseLocation(item.location.M), ParseFarmDetails(item.farmDetails.M),
        ParsePreferences(item.preferences.M),
        FromIsoFormat(item.createdAt.S), FromIsoFormat(item.updatedAt.S))

----------------------------------------------------------------------------
(* The DynamoDB client the handlers call.  A call ends "ok", or raises a   *)
(* botocore ClientError with the given error code, or raises an error that *)
(* is no ClientError (EndpointConnectionError).                            *)

FarmerIds == {"f1"}

IdOrder == <<"f1">>

StoreFaults ==
    {"none", "ProvisionedThroughputExceededException", "EndpointConnectionError"}

IsClientError(outcome) ==
    outcome \in {"ConditionalCheckFailedException",
                 "ProvisionedThroughputExceededException"}

Min(a, b) == IF a < b THEN a ELSE b

Updaters == 1..MaxUpdaters

Creators == 1..MaxCreators

\* Variant of PutItemOutcome that sends no ConditionExpression
PutItemOutcomeUnconditional(tbl, id, fault) ==
    IF fault # "none" THEN fault ELSE "ok"

\* Variant of UpdateItemOutcome whose condition also demands an item nobody
\* has updated yet
UpdateItemOutcomeFirstWriterOnly(tbl, id, fault) ==
    IF fault # "none" THEN fault
    ELSE IF tbl[id] = None THEN "ConditionalCheckFailedException"
    ELSE IF tbl[id][1].updated_at # tbl[id][1].created_at
         THEN "ConditionalCheckFailedException"
    ELSE "ok"

\* update_item(..., ConditionExpression="attribute_exists(id)")
UpdateItemOutcome(tbl, id, fault) ==
    IF fault # "none" THEN fault
    ELSE IF tbl[id] = None THEN "ConditionalCheckFailedException"
    ELSE "ok"

\* put_item(..., ConditionExpression="attribute_not_exists(farmerId)")
PutItemOutcome(tbl, id, fault) ==
    IF fault # "none" THEN fault
    ELSE IF tbl[id] # None THEN "ConditionalCheckFailedException"
    ELSE "ok"

\* get_item(Key={"farmerId": {"S": farmer_id}}): "Item" is absent for no item
GetItemResponse(tbl, id) ==
    IF tbl[id] = None THEN [ResponseMetadata |-> "ok"]
    ELSE [ResponseMetadata |-> "ok", Item |-> tbl[id][1]]

\* scan(Limit=n) of the table itself
ScanItems(tbl, limit) ==
    LET present == SelectSeq(IdOrder, LAMBDA i : tbl[i] # None)
        items   == [k \in 1..Len(present) |-> tbl[present[k]][1]]
    IN SubSeq(items, 1, Min(limit, Len(items)))

----------------------------------------------------------------------------
(* Responses *)

HTTPException(status, detail) == [status |-> status, body |-> [detail |-> detail]]

\* Variant of GlobalExceptionResponse that reports the exception
GlobalExceptionResponseWithDetail ==
    [status |-> 500,
     body |-> [error |-> "Internal server error",
               message |-> "EndpointConnectionError",
               request_id |-> None]]

\* main.py: global_exception_handler
GlobalExceptionResponse ==
    [status |-> 500,
     body |-> [error |-> "Internal server error",
               message |-> "An unexpected error occurred. Please try again later.",
               request_id |-> None]]

\* Variant of CreateErrorResponse without the ConditionalCheckFailedException
\* branch: every ClientError is a 500
CreateErrorResponseNoConflict(outcome) ==
    HTTPException(500, "Failed to create farmer profile")

\* create_farmer_profile: except ClientError
CreateErrorResponse(outcome) ==
    IF outcome = "ConditionalCheckFailedException"
    THEN HTTPException(409, "Farmer profile already exists")
    ELSE HTTPException(500, "Failed to create farmer profile")

\* create_farmer_profile, from the outcome of put_item on
CreateFarmerProfileResponse(p, id, t, outcome) ==
    IF outcome = "ok"
    THEN [status |-> 201,
          body |-> ApiFarmerProfileResponse(id, p.name, p.phone_number,
                       p.location, p.farm_details, p.preferences, t, t)]
    ELSE IF IsClientError(outcome) THEN CreateErrorResponse(outcome)
    ELSE GlobalExceptionResponse

\* Variant of GetFarmerProfileResponse without the `"Item" not in response`
\* check: response["Item"] raises KeyError, which is no ClientError
GetFarmerProfileResponseNoItemCheck(id, outcome, response) ==
    IF outcome = "ok"
    THEN IF "Item" \notin DOMAIN response
         THEN GlobalExceptionResponse
         ELSE [status |-> 200, body |-> ParseFarmerItem(id, response.Item)]
    ELSE IF IsClientError(outcome)
    THEN HTTPException(500, "Failed to retrieve farmer profile")
    ELSE GlobalExceptionResponse

\* get_farmer_profile, from the outcome of get_item on
GetFarmerProfileResponse(id, outcome, response) ==
    IF outcome = "ok"
    THEN IF "Item" \notin DOMAIN response
         THEN HTTPException(404, "Farmer profile not found")
         ELSE [status |-> 200, body |-> ParseFarmerItem(id, response.Item)]
    ELSE IF IsClientError(outcome)
    THEN HTTPException(500, "Failed to retrieve farmer profile")
    ELSE GlobalExceptionResponse

\* list_farmer_profiles: Limit=min(limit, 100)
ScanLimit(limit) == Min(limit, ScanCap)

\* list_farmer_profiles, from the outcome of scan on
ListFarmerProfilesResponse(outcome, items) ==
    IF outcome = "ok"
    THEN [status |-> 200,
          body |-> [k \in 1..Len(items) |->
                       ParseFarmerItem(items[k].farmerId.S, items[k])]]
    ELSE IF IsClientError(outcome)
    THEN HTTPException(500, "Failed to retrieve farmer profiles")
    ELSE GlobalExceptionResponse

----------------------------------------------------------------------------
(* api/v1/health.py *)

ProbeOutcomes == {"ok", "ClientError", "Exception"}

\* try: ... except ClientError: "unhealthy" / except Exception: "error"
ProbeStatus(outcome) ==
    CASE outcome = "ok" -> "healthy"
      [] outcome = "ClientError" -> "unhealthy"
      [] OTHER -> "error"

\* the Bedrock probe has the one handler, except Exception
BedrockProbeStatus(outcome) ==
    IF outcome = "ok" THEN "healthy" ELSE "error"

\* health_status["status"] = "degraded" in every except branch
StatusAfterProbe(status, outcome) ==
    IF outcome = "ok" THEN status ELSE "degraded"

\* Variant of DetailedHealthCheckResponse whose DynamoDB probe has only the
\* except ClientError handler: any other error leaves the endpoint
DetailedHealthCheckResponseUncaught(cfg, t, dyn, s3, bed) ==
    IF dyn = "Exception"
    THEN [status |-> 500,
          body |-> [error |-> "Internal server error",
                    message |-> "An unexpected error occurred. Please try again later.",
                    request_id |-> None]]
    ELSE [status |-> 200,
          body |-> [status |-> StatusAfterProbe(StatusAfterProbe(
                                   StatusAfterProbe("healthy", dyn), s3), bed),
                    timestamp |-> IsoFormat(t),
                    environment |-> cfg.environment,
                    version |-> "1.0.0",
                    services |-> [dynamodb |-> ProbeStatus(dyn),
                                  s3 |-> ProbeStatus(s3),
                                  bedrock |-> BedrockProbeStatus(bed)]]]

DetailedHealthCheckResponse(cfg, t, dyn, s3, bed) ==
    [status |-> 200,
     body |-> [status |-> StatusAfterProbe(StatusAfterProbe(
                              StatusAfterProbe("healthy", dyn), s3), bed),
               timestamp |-> IsoFormat(t),
               environment |-> cfg.environment,
               version |-> "1.0.0",
               services |-> [dynamodb |-> ProbeStatus(dyn),
                             s3 |-> ProbeStatus(s3),
                             bedrock |-> BedrockProbeStatus(bed)]]]

----------------------------------------------------------------------------
(* api/v1/whatsapp.py: verify_webhook *)

RECURSIVE JsonEscape(_)
JsonEscape(s) ==
    IF s = <<>> THEN <<>>
    ELSE (IF Head(s) \in {"\"", "\\"} THEN <<"\\", Head(s)>> ELSE <<Head(s)>>)
             \o JsonEscape(Tail(s))

\* The route declares no response class: the returned str is rendered by
\* FastAPI's default JSONResponse, as a JSON string literal.
JSONResponseRender(s) == <<"\"">> \o JsonEscape(s) \o <<"\"">>

VerifyWebhookResponse(cfg, mode, challenge, token) ==
    IF mode = "subscribe" /\ Some(token) = cfg.whatsapp_verify_token
    THEN [status |-> 200, body |-> JSONResponseRender(challenge)]
    ELSE HTTPException(403, "Invalid verification token")

----------------------------------------------------------------------------
(* scripts/deploy.py *)

SupportedEnvs == {"dev", "staging", "prod"}

\* argparse: environment has choices=["dev", "staging", "prod"], --account is
\* required; parse_args() ends the process with status 2 on a usage error
ParseArgsOk(args) ==
    args.environment \in SupportedEnvs /\ args.account # None

ArgparseErrorStatus == 2

StepFailureStatus == 1

ValidateEnvironmentOk(env) == env \in SupportedEnvs

Prerequisites == {"python", "node", "npm", "aws", "cdk"}

\* check_prerequisites: all five are probed, any missing one fails the check
CheckPrerequisitesOk(missing) == missing = {}

\* install_dependencies, package_lambda_code: the commands run in order, the
\* first nonzero return code fails the step; rcs are the return codes met
CommandsOk(rcs) == \A i \in 1..Len(rcs) : rcs[i] = 0

\* the step main() runs after `step`, given the skip flags
NextStep(step, args) ==
    CASE step = "parse_args" -> "validate_environment"
      [] step = "validate_environment" -> "check_prerequisites"
      [] step = "check_prerequisites" ->
            IF args.skip_deps THEN "package_lambda_code"
            ELSE "install_dependencies"
      [] step = "install_dependencies" -> "package_lambda_code"
      [] step = "package_lambda_code" ->
            IF args.skip_bootstrap THEN "deploy_infrastructure"
            ELSE "bootstrap_cdk"
      [] step = "bootstrap_cdk" -> "deploy_infrastructure"
      [] step = "deploy_infrastructure" -> "outputs"
      [] OTHER -> "exit"

\* the order of the steps in main()
StepOrder ==
    <<"parse_args", "validate_environment", "check_prerequisites",
      "install_dependencies", "package_lambda_code", "bootstrap_cdk",
      "deploy_infrastructure", "outputs">>

StepIndex(step) == CHOOSE i \in 1..Len(StepOrder) : StepOrder[i] = step

----------------------------------------------------------------------------
(* The farmer domain models.  An area is a number of tenths of an acre.    *)

RECURSIVE SumAreas(_)
SumAreas(areas) ==
    IF areas = <<>> THEN 0 ELSE Head(areas) + SumAreas(Tail(areas))

CoreMaxAcres == 10000

\* core/models/farmer.py: confloat(gt=0, le=10000)
CoreAreaOk(a) == a > 0 /\ a <= CoreMaxAcres * 10

\* core/models/farmer.py: FarmDetails with @validator('crops')
\* validate_total_crop_area, which runs once every crop has validated
CoreFarmDetailsOk(total, areas) ==
    /\ CoreAreaOk(total)
    /\ \A i \in 1..Len(areas) : CoreAreaOk(areas[i])
    /\ (areas # <<>> => ~(SumAreas(areas) > total))

\* models/farmer.py: FarmDetails; every area is a Measurement, whose value is
\* an unconstrained float.  cultivable and irrigated are Optional.
ModelsFarmDetailsOk(total, cultivable, irrigated, areas) ==
    /\ (cultivable # None => ~(cultivable[1] > total))
    /\ (irrigated # None =>
           IF cultivable # None THEN ~(irrigated[1] > cultivable[1])
           ELSE ~(irrigated[1] > total))

\* core/models/farmer.py: CropInfo with @validator('expected_harvest')
\* validate_harvest_date; a date is a day number, an Optional date <<>> or <<d>>
CoreCropInfoOk(planting, harvest) ==
    ~(harvest # None /\ planting # None /\ harvest[1] <= planting[1])

\* models/farmer.py: CropInfo with @field_validator('expected_harvest_date')
ModelsCropInfoOk(planting, harvest) ==
    ~(harvest # None /\ planting # None /\ harvest[1] <= planting[1])

\* api/v1/farmers.py: CropInfo, whose two dates are plain Optional[datetime]
ApiCropInfoOk(planting, harvest) ==
    ApiCropInfoErrors([crop_type |-> "wheat", area |-> 15,
                       planting_date |-> planting,
                       expected_harvest |-> harvest]) = {}

\* api/v1/farmers.py: FarmDetails
ApiFarmDetailsOk(total, areas) ==
    ApiFarmDetailsErrors(
        [total_land_area |-> total, soil_type |-> "loamy",
         irrigation_type |-> "canal",
         crops |-> [i \in 1..Len(areas) |->
                       [crop_type |-> "wheat", area |-> areas[i],
                        planting_date |-> None, expected_harvest |-> None]]]) = {}

(* models/farmer.py: FarmerProfileResponse *)

\* FarmerProfile: "Government IDs and Registrations", "Financial Information"
GovernmentFinancialFields ==
    {"aadhaar_number", "pan_number", "kisan_credit_card",
     "pm_kisan_beneficiary_id", "annual_income", "bank_account_details",
     "insurance_policies"}

PublicFields == {"id", "name", "verification_status"}

\* FarmerProfileResponse: the fields redeclared with Field(exclude=True)
ResponseExcludedFields ==
    {"aadhaar_number", "pan_number", "bank_account_details"}

\* models/base.py: alias_generator=to_camel, ser_by_alias=True
ToCamel(field) ==
    CASE field = "aadhaar_number" -> "aadhaarNumber"
      [] field = "pan_number" -> "panNumber"
      [] field = "kisan_credit_card" -> "kisanCreditCard"
      [] field = "pm_kisan_beneficiary_id" -> "pmKisanBeneficiaryId"
      [] field = "annual_income" -> "annualIncome"
      [] field = "bank_account_details" -> "bankAccountDetails"
      [] field = "insurance_policies" -> "insurancePolicies"
      [] field = "verification_status" -> "verificationStatus"
      [] OTHER -> field

\* the serialised FarmerProfileResponse: every field not excluded, by alias
SerializeFarmerProfileResponse(profile) ==
    LET kept == DOMAIN profile \ ResponseExcludedFields
    IN [key \in {ToCamel(f) : f \in kept} |->
           profile[CHOOSE f \in kept : ToCamel(f) = key]]

----------------------------------------------------------------------------
(* Inputs *)

Times == 1..MaxTime

IndianMobile == <<"+", "9", "1", "9", "8", "7", "6", "5", "4", "3", "2", "1", "0">>

LandlineLike == <<"+", "9", "1", "5", "8", "7", "6", "5", "4", "3", "2", "1", "0">>

BareTenDigits == <<"9", "8", "7", "6", "5", "4", "3", "2", "1", "0">>

NotANumber == <<"i", "n", "v", "a", "l", "i", "d">>

PhoneSamples == {IndianMobile, LandlineLike, BareTenDigits, NotANumber}

CropSamples ==
    {[crop_type |-> "wheat", area |-> 15,
      planting_date |-> None, expected_harvest |-> None],
     [crop_type |-> "gram", area |-> 20,
      planting_date |-> Some(1), expected_harvest |-> Some(2)]}

RECURSIVE SeqsUpTo(_, _)
SeqsUpTo(S, n) ==
    IF n = 0 THEN {<<>>}
    ELSE LET shorter == SeqsUpTo(S, n - 1)
         IN shorter \cup {Append(q, x) : q \in shorter, x \in S}

CropLists == SeqsUpTo(CropSamples, MaxCrops)

Profile(phone, lat, lon, total, crops) ==
    [name |-> "Ram Kumar",
     phone_number |-> phone,
     location |-> [state |-> "Uttar Pradesh", district |-> "Lucknow",
                   village |-> "Ramnagar", latitude |-> lat, longitude |-> lon],
     farm_details |-> [total_land_area |-> total, soil_type |-> "loamy",
                       irrigation_type |-> "tubewell", crops |-> crops],
     preferences |-> [organic_farming |-> TRUE, risk_tolerance |-> "medium",
                      preferred_language |-> "hi"]]

BaseProfile == Profile(IndianMobile, None, None, 30, <<>>)

\* the submitted profiles: the base profile varied in its phone number, in
\* its coordinates, in its land area and in its crops
Profiles ==
    {Profile(ph, None, None, 30, <<>>) : ph \in PhoneSamples}
        \cup {Profile(IndianMobile, Some(268), lon, 30, <<>>) :
                 lon \in {None, Some(809)}}
        \cup {Profile(IndianMobile, None, Some(-809), 30, <<>>),
              Profile(IndianMobile, None, None, 0, <<>>)}
        \cup {Profile(IndianMobile, None, None, 30, crops) : crops \in CropLists}

LimitSamples == {10, 500}

MockScanCounts == {0, 1, ScanCap, MaxMockScan}

\* a scan the store answers from the table, or a mocked scan reporting n items
ScanSources ==
    {[mock |-> FALSE, n |-> 0]} \cup {[mock |-> TRUE, n |-> n] : n \in MockScanCounts}

MockScanItems(n) == [k \in 1..n |-> FarmerItem(BaseProfile, "f1", 1)]

TokenSamples == {"krishi-verify", "guess"}

ChallengeSamples == {<<"1", "1", "5", "8">>, <<"a", "\"", "b">>}

ModeSamples == {"subscribe", "unsubscribe"}

EnvSamples == SupportedEnvs \cup {"qa"}

AccountSamples == {None, Some("123456789012")}

TotalSamples == {0, 30, 35}

AreaLists == SeqsUpTo({0, 15, 20}, MaxCrops)

OptionalAreas == {None, Some(20), Some(40)}

OptionalDays == {None} \cup {Some(d) : d \in 1..MaxDay}

ResponseProfiles ==
    [id : {"farmer-1"}, name : {"Ram Kumar"}, verification_status : {"pending"},
     aadhaar_number : {None, Some("499118665932")},
     pan_number : {None, Some("ABCDE1234F")},
     kisan_credit_card : {None, Some("KCC-77")},
     pm_kisan_beneficiary_id : {None, Some("PMK-9")},
     annual_income : {None, Some("120000.00 INR")},
     bank_account_details : {None, Some("SBIN0001234/000111222333")},
     insurance_policies : {<<>>, <<"PMFBY-1">>}]

----------------------------------------------------------------------------
(* Initial state *)

\* core/config.py: whatsapp_verify_token defaults to None
DefaultSettings ==
    [environment |-> "development", whatsapp_verify_token |-> None]

SettingsSamples ==
    {DefaultSettings,
     [environment |-> "development", whatsapp_verify_token |-> Some("krishi-verify")]}

InitWith(cfg) ==
    /\ settings = cfg
    /\ table = [id \in FarmerIds |-> None]
    /\ req = [op |-> "none"]
    /\ resp = [op |-> "none", status |-> 0, body |-> <<>>]
    /\ storeCalls = <<>>
    /\ dpc = "start"
    /\ dargs = [environment |-> "dev", account |-> None,
                skip_deps |-> FALSE, skip_bootstrap |-> FALSE]
    /\ dran = <<>>
    /\ dfailed = None
    /\ dexit = None
    /\ built = [model |-> "none"]
    /\ batch = [pc |-> "idle"]
    /\ inst = [model |-> "none"]
    /\ creators = [c \in Creators |-> [pc |-> "idle"]]
    /\ puts = <<>>
    /\ sm = [client |-> None, constructed |-> 0, open |-> {}, op |-> "none"]
    /\ ddl = [pc |-> "idle"]
    /\ wa = [pc |-> "idle"]
    /\ now = 0
    /\ updaters = [u \in Updaters |-> [pc |-> "idle"]]
    /\ applied = <<>>
    /\ repo = [op |-> "none"]

NoCall == [fn |-> "none"]

Init == InitWith(DefaultSettings) /\ util = NoCall

InitConfigured == \E cfg \in SettingsSamples : InitWith(cfg) /\ util = NoCall

----------------------------------------------------------------------------
(* The mounted API *)

Answer(op, r) == [op |-> op, status |-> r.status, body |-> r.body]

StoreCall(call, key, outcome, n) ==
    [call |-> call, key |-> key, outcome |-> outcome, n |-> n]

\* POST /api/v1/farmers with a body the request model rejects
CreateFarmerProfileInvalid ==
    \E p \in Profiles :
        /\ ApiFarmerProfileErrors(p) # {}
        /\ req' = [op |-> "create", profile |-> p]
        /\ resp' = Answer("create", HTTPException(422, ApiFarmerProfileErrors(p)))
        /\ storeCalls' = <<>>
        /\ UNCHANGED <<settings, table, deployVars, modelVars, extVars>>

\* POST /api/v1/farmers with a body the request model accepts
CreateFarmerProfile ==
    \E p \in Profiles, id \in FarmerIds, t \in Times, fault \in StoreFaults :
        LET outcome == PutItemOutcome(table, id, fault)
        IN /\ ApiFarmerProfileErrors(p) = {}
           /\ req' = [op |-> "create", profile |-> p]
           /\ resp' = Answer("create", CreateFarmerProfileResponse(p, id, t, outcome))
           /\ storeCalls' = <<StoreCall("put_item", id, outcome, 0)>>
           /\ table' = IF outcome = "ok"
                       THEN [table EXCEPT ![id] = Some(FarmerItem(p, id, t))]
                       ELSE table
           /\ UNCHANGED <<settings, deployVars, modelVars, extVars>>

\* GET /api/v1/farmers/{farmer_id}
GetFarmerProfile ==
    \E id \in FarmerIds, fault \in StoreFaults :
        LET outcome  == IF fault = "none" THEN "ok" ELSE fault
            response == GetItemResponse(table, id)
        IN /\ req' = [op |-> "get", farmer_id |-> id]
           /\ resp' = Answer("get", GetFarmerProfileResponse(id, outcome, response))
           /\ storeCalls' = <<StoreCall("get_item", id, outcome,
                                 IF outcome = "ok" /\ "Item" \in DOMAIN response
                                 THEN 1 ELSE 0)>>
           /\ UNCHANGED <<settings, table, deployVars, modelVars, extVars>>

\* GET /api/v1/farmers?limit=n, the scan answered
ListFarmerProfiles ==
    \E limit \in LimitSamples, src \in ScanSources :
        LET items == IF src.mock THEN MockScanItems(src.n)
                     ELSE ScanItems(table, ScanLimit(limit))
        IN /\ req' = [op |-> "list", limit |-> limit]
           /\ resp' = Answer("list", ListFarmerProfilesResponse("ok", items))
           /\ storeCalls' = <<StoreCall("scan", "", "ok", Len(items))>>
           /\ UNCHANGED <<settings, table, deployVars, modelVars, extVars>>

\* GET /api/v1/farmers?limit=n, the scan raising
ListFarmerProfilesFailed ==
    \E limit \in LimitSamples, fault \in StoreFaults \ {"none"} :
        /\ req' = [op |-> "list", limit |-> limit]
        /\ resp' = Answer("list", ListFarmerProfilesResponse(fault, <<>>))
        /\ storeCalls' = <<StoreCall("scan", "", fault, 0)>>
        /\ UNCHANGED <<settings, table, deployVars, modelVars, extVars>>

NextFarmers ==
    \/ CreateFarmerProfileInvalid
    \/ CreateFarmerProfile
    \/ GetFarmerProfile
    \/ ListFarmerProfiles
    \/ ListFarmerProfilesFailed

Spec == Init /\ [][NextFarmers]_vars

\* GET /api/v1/health/detailed
DetailedHealthCheck ==
    \E t \in Times, dyn \in ProbeOutcomes, s3 \in ProbeOutcomes,
       bed \in ProbeOutcomes :
        /\ req' = [op |-> "health", dynamodb |-> dyn, s3 |-> s3, bedrock |-> bed]
        /\ resp' = Answer("health",
                       DetailedHealthCheckResponse(settings, t, dyn, s3, bed))
        /\ storeCalls' = <<StoreCall("describe_table", "", dyn, 0)>>
        /\ UNCHANGED <<settings, table, deployVars, modelVars, extVars>>

\* GET /api/v1/whatsapp/webhook
VerifyWebhook ==
    \E mode \in ModeSamples, challenge \in ChallengeSamples,
       token \in TokenSamples :
        /\ req' = [op |-> "verify", mode |-> mode, challenge |-> challenge,
                   token |-> token]
        /\ resp' = Answer("verify",
                       VerifyWebhookResponse(settings, mode, challenge, token))
        /\ storeCalls' = <<>>
        /\ UNCHANGED <<settings, table, deployVars, modelVars, extVars>>

NextOps ==
    \/ DetailedHealthCheck
    \/ VerifyWebhook

SpecOps == InitConfigured /\ [][NextOps]_vars

----------------------------------------------------------------------------
(* The deployment CLI: main() of scripts/deploy.py, one action per step *)

ReturnCodes == {0, 1}

\* the return codes a step of n commands meets: it stops at the first nonzero
CommandRuns(n) ==
    {rcs \in UNION {[1..k -> ReturnCodes] : k \in 1..n} :
        /\ \A i \in 1..(Len(rcs) - 1) : rcs[i] = 0
        /\ (Len(rcs) < n => rcs[Len(rcs)] # 0)}

\* a step of main(): on failure sys.exit(failStatus), else on to the next step
FinishStep(step, ok, failStatus) ==
    /\ dran' = Append(dran, step)
    /\ IF ok
       THEN /\ dpc' = NextStep(step, dargs)
            /\ UNCHANGED <<dfailed, dexit>>
       ELSE /\ dpc' = "exit"
            /\ dfailed' = Some(step)
            /\ dexit' = Some(failStatus)
    /\ UNCHANGED <<dargs, apiVars, modelVars, extVars>>

DeployInvoke ==
    /\ dpc = "start"
    /\ dargs' \in [environment : EnvSamples, account : AccountSamples,
                   skip_deps : BOOLEAN, skip_bootstrap : BOOLEAN]
    /\ dpc' = "parse_args"
    /\ UNCHANGED <<dran, dfailed, dexit, apiVars, modelVars, extVars>>

DeployParseArgs ==
    /\ dpc = "parse_args"
    /\ FinishStep("parse_args", ParseArgsOk(dargs), ArgparseErrorStatus)

DeployValidateEnvironment ==
    /\ dpc = "validate_environment"
    /\ FinishStep("validate_environment",
                  ValidateEnvironmentOk(dargs.environment), StepFailureStatus)

DeployCheckPrerequisites ==
    \E missing \in SUBSET Prerequisites :
        /\ dpc = "check_prerequisites"
        /\ FinishStep("check_prerequisites", CheckPrerequisitesOk(missing),
                      StepFailureStatus)

DeployInstallDependencies ==
    \E rcs \in CommandRuns(2) :
        /\ dpc = "install_dependencies"
        /\ FinishStep("install_dependencies", CommandsOk(rcs), StepFailureStatus)

DeployPackageLambdaCode ==
    \E rcs \in CommandRuns(3) :
        /\ dpc = "package_lambda_code"
        /\ FinishStep("package_lambda_code", CommandsOk(rcs), StepFailureStatus)

DeployBootstrapCdk ==
    \E rcs \in CommandRuns(1) :
        /\ dpc = "bootstrap_cdk"
        /\ FinishStep("bootstrap_cdk", CommandsOk(rcs), StepFailureStatus)

DeployInfrastructure ==
    \E rcs \in CommandRuns(1) :
        /\ dpc = "deploy_infrastructure"
        /\ FinishStep("deploy_infrastructure", CommandsOk(rcs), StepFailureStatus)

\* the stack outputs are printed best-effort: the return code is not looked at
DeployOutputs ==
    \E rc \in ReturnCodes :
        /\ dpc = "outputs"
        /\ dran' = Append(dran, "outputs")
        /\ dpc' = "exit"
        /\ dexit' = Some(0)
        /\ UNCHANGED <<dargs, dfailed, apiVars, modelVars, extVars>>

NextDeploy ==
    \/ DeployInvoke
    \/ DeployParseArgs
    \/ DeployValidateEnvironment
    \/ DeployCheckPrerequisites
    \/ DeployInstallDependencies
    \/ DeployPackageLambdaCode
    \/ DeployBootstrapCdk
    \/ DeployInfrastructure
    \/ DeployOutputs

SpecDeploy == Init /\ [][NextDeploy]_vars

----------------------------------------------------------------------------
(* Construction of the domain models *)

ConstructCoreFarmDetails ==
    \E total \in TotalSamples, areas \in AreaLists :
        /\ built' = [model |-> "core.FarmDetails", total |-> total,
                     areas |-> areas, ok |-> CoreFarmDetailsOk(total, areas)]
        /\ UNCHANGED <<apiVars, deployVars, extVars>>

ConstructModelsFarmDetails ==
    \E total \in TotalSamples, areas \in AreaLists,
       cultivable \in OptionalAreas, irrigated \in OptionalAreas :
        /\ built' = [model |-> "models.FarmDetails", total |-> total,
                     areas |-> areas, cultivable |-> cultivable,
                     irrigated |-> irrigated,
                     ok |-> ModelsFarmDetailsOk(total, cultivable, irrigated, areas)]
        /\ UNCHANGED <<apiVars, deployVars, extVars>>

ConstructApiFarmDetails ==
    \E total \in TotalSamples, areas \in AreaLists :
        /\ built' = [model |-> "api.FarmDetails", total |-> total,
                     areas |-> areas, ok |-> ApiFarmDetailsOk(total, areas)]
        /\ UNCHANGED <<apiVars, deployVars, extVars>>

ConstructCoreCropInfo ==
    \E planting \in OptionalDays, harvest \in OptionalDays :
        /\ built' = [model |-> "core.CropInfo", planting |-> planting,
                     harvest |-> harvest,
                     ok |-> CoreCropInfoOk(planting, harvest)]
        /\ UNCHANGED <<apiVars, deployVars, extVars>>

ConstructModelsCropInfo ==
    \E planting \in OptionalDays, harvest \in OptionalDays :
        /\ built' = [model |-> "models.CropInfo", planting |-> planting,
                     harvest |-> harvest,
                     ok |-> ModelsCropInfoOk(planting, harvest)]
        /\ UNCHANGED <<apiVars, deployVars, extVars>>

ConstructApiCropInfo ==
    \E planting \in OptionalDays, harvest \in OptionalDays :
        /\ built' = [model |-> "api.CropInfo", planting |-> planting,
                     harvest |-> harvest,
                     ok |-> ApiCropInfoOk(planting, harvest)]
        /\ UNCHANGED <<apiVars, deployVars, extVars>>

SerializeProfileResponse ==
    \E profile \in ResponseProfiles :
        /\ built' = [model |-> "models.FarmerProfileResponse",
                     profile |-> profile,
                     out |-> SerializeFarmerProfileResponse(profile)]
        /\ UNCHANGED <<apiVars, deployVars, extVars>>

NextModels ==
    \/ ConstructCoreFarmDetails
    \/ ConstructModelsFarmDetails
    \/ ConstructApiFarmDetails
    \/ ConstructCoreCropInfo
    \/ ConstructModelsCropInfo
    \/ ConstructApiCropInfo
    \/ SerializeProfileResponse

SpecModels == Init /\ [][NextModels]_vars

----------------------------------------------------------------------------
(* Python values as the encryption services see them: a str is a sequence  *)
(* of characters, a dict a sequence of <<key, value>> pairs in insertion   *)
(* order.                                                                  *)

PyNone == [t |-> "none", v |-> <<>>]
PyStr(s) == [t |-> "str", v |-> s]
PyInt(n) == [t |-> "int", v |-> <<n>>]
PyDict(pairs) == [t |-> "dict", v |-> pairs]

\* == on Python values
RECURSIVE PyEq(_, _)
PyEq(a, b) ==
    /\ a.t = b.t
    /\ IF a.t = "dict"
       THEN /\ Len(a.v) = Len(b.v)
            /\ \A i \in 1..Len(a.v) :
                   a.v[i][1] = b.v[i][1] /\ PyEq(a.v[i][2], b.v[i][2])
       ELSE a.v = b.v

\* json.dumps with the default separators
RECURSIVE JsonDumps(_)
RECURSIVE JsonDumpsPairs(_)
JsonDumpsPairs(pairs) ==
    IF pairs = <<>> THEN <<>>
    ELSE <<"\"">> \o JsonEscape(pairs[1][1]) \o <<"\"", ":", " ">>
         \o JsonDumps(pairs[1][2])
         \o (IF Len(pairs) > 1 THEN <<",", " ">> ELSE <<>>)
         \o JsonDumpsPairs(Tail(pairs))

JsonDumps(x) ==
    CASE x.t = "none" -> <<"n", "u", "l", "l">>
      [] x.t = "int"  -> NatStr(x.v[1])
      [] x.t = "str"  -> <<"\"">> \o JsonEscape(x.v) \o <<"\"">>
      [] x.t = "dict" -> <<"{">> \o JsonDumpsPairs(x.v) \o <<"}">>

\* str(value) of a value that is neither str nor dict
PyStrOf(x) ==
    CASE x.t = "none" -> <<"N", "o", "n", "e">>
      [] x.t = "int"  -> NatStr(x.v[1])

Name == <<"o", "m">>
Pincode == <<"1", "1">>

\* the JSON documents json.loads can be handed here
JsonDocuments ==
    <<PyNone, PyInt(11), PyStr(Name), PyStr(Pincode),
      PyDict(<<>>),
      PyDict(<< <<<<"a">>, PyStr(Pincode)>> >>),
      PyDict(<< <<<<"a">>, PyStr(Name)>>, <<<<"n">>, PyInt(11)>> >>)>>

\* json.loads: Some(document) or, on JSONDecodeError, None
JsonLoads(text) ==
    IF \E i \in DOMAIN JsonDocuments : JsonDumps(JsonDocuments[i]) = text
    THEN Some(JsonDocuments[CHOOSE i \in DOMAIN JsonDocuments :
                                JsonDumps(JsonDocuments[i]) = text])
    ELSE None

----------------------------------------------------------------------------
(* core/security/encryption.py EncryptionService and                       *)
(* core/utils/encryption.py EncryptionManager.  The cryptography library   *)
(* is outside the repository: a Fernet token is the record of its key, its *)
(* random IV and the bytes it protects, and opens under that key only.     *)

FernetEncrypt(key, data, iv) == [key |-> key, iv |-> iv, data |-> data]

\* Some(bytes), or None for InvalidToken
FernetDecrypt(key, token) ==
    IF token.key = key THEN Some(token.data) ELSE None

B64Encode(bytes) == [b64 |-> bytes]
B64Decode(text) == text.b64

Raised(kind) == [ok |-> FALSE, error |-> kind]
Returned(value) == [ok |-> TRUE, value |-> value]

\* EncryptionService.encrypt
EncryptionServiceEncrypt(key, data, iv) ==
    LET text == IF data.t = "dict" THEN JsonDumps(data)
                ELSE IF data.t # "str" THEN PyStrOf(data)
                ELSE data.v
    IN B64Encode(FernetEncrypt(key, text, iv))

\* EncryptionService.decrypt
EncryptionServiceDecrypt(key, encrypted_data) ==
    LET decrypted_data == FernetDecrypt(key, B64Decode(encrypted_data))
    IN IF decrypted_data = None THEN Raised("EncryptionError")
       ELSE Returned(PyStr(decrypted_data[1]))

PyEncrypted(text) == [t |-> "encrypted", v |-> text]

\* EncryptionService.encrypt_dict
EncryptionServiceEncryptDict(key, data, iv) ==
    PyDict([i \in 1..Len(data.v) |->
               <<data.v[i][1],
                 IF data.v[i][2].t # "none"
                 THEN PyEncrypted(EncryptionServiceEncrypt(key, data.v[i][2], iv))
                 ELSE PyNone>>])

\* the value decrypt_dict stores for one encrypted value
DecryptedValue(key, value) ==
    LET decrypted == EncryptionServiceDecrypt(key, value.v)
    IN IF ~decrypted.ok THEN value
       ELSE LET parsed == JsonLoads(decrypted.value.v)
            IN IF parsed # None THEN parsed[1] ELSE decrypted.value

\* EncryptionService.decrypt_dict
EncryptionServiceDecryptDict(key, encrypted_data) ==
    PyDict([i \in 1..Len(encrypted_data.v) |->
               <<encrypted_data.v[i][1],
                 IF encrypted_data.v[i][2].t # "none"
                 THEN DecryptedValue(key, encrypted_data.v[i][2])
                 ELSE PyNone>>])

\* EncryptionManager._derive_key: PBKDF2 of the key material under the salt
DeriveKey(password, salt) == <<"pbkdf2", password, salt>>

\* master_key + (context or "")
KeyMaterial(master_key, context) ==
    master_key \o (IF context = None THEN <<>> ELSE context[1])

\* EncryptionManager.encrypt_data
EncryptData(master_key, data, context, salt, iv) ==
    B64Encode([salt |-> salt,
               encrypted_data |->
                   FernetEncrypt(DeriveKey(KeyMaterial(master_key, context), salt),
                                 data, iv)])

\* EncryptionManager.decrypt_data
DecryptData(master_key, encrypted_data, context) ==
    LET combined == B64Decode(encrypted_data)
        key == DeriveKey(KeyMaterial(master_key, context), combined.salt)
        decrypted_data == FernetDecrypt(key, combined.encrypted_data)
    IN IF decrypted_data = None THEN Raised("EncryptionError")
       ELSE Returned(decrypted_data[1])

EncryptionKeys == {"key-a", "key-b"}
MasterKeys == {<<"m">>, <<"m", "1">>}
Contexts == {None, Some(<<"1">>)}
RandomBytes == {1, 2}

\* what encrypt is handed: a str or a dict
EncryptInputs ==
    <<PyStr(<<>>), PyStr(Name), PyStr(Pincode),
      PyDict(<<>>),
      PyDict(<< <<<<"a">>, PyStr(Pincode)>> >>),
      PyDict(<< <<<<"a">>, PyStr(Name)>>, <<<<"n">>, PyInt(11)>> >>)>>

\* what encrypt_dict is handed
EncryptDictInputs ==
    <<PyDict(<<>>),
      PyDict(<< <<<<"a">>, PyStr(Name)>> >>),
      PyDict(<< <<<<"a">>, PyStr(Pincode)>> >>),
      PyDict(<< <<<<"a">>, PyNone>>, <<<<"n">>, PyInt(11)>> >>),
      PyDict(<< <<<<"b">>, PyDict(<< <<<<"a">>, PyStr(Pincode)>> >>)>> >>)>>

EncryptDataInputs == {<<>>, Name, Pincode}

EncryptionCalls(u) ==
    \/ \E key \in EncryptionKeys, i \in DOMAIN EncryptInputs :
           u = [fn |-> "EncryptionService.encrypt", pc |-> "called",
                key |-> key, data |-> EncryptInputs[i]]
    \/ \E key \in EncryptionKeys, i \in DOMAIN EncryptDictInputs :
           u = [fn |-> "EncryptionService.encrypt_dict", pc |-> "called",
                key |-> key, data |-> EncryptDictInputs[i]]
    \/ \E key \in MasterKeys, data \in EncryptDataInputs, context \in Contexts :
           u = [fn |-> "EncryptionManager.encrypt_data", pc |-> "called",
                key |-> key, data |-> data, context |-> context]

Called(fn) == util.fn = fn /\ util.pc = "called"
Done(fn) == util.fn = fn /\ util.pc = "returned"
OtherVars == <<apiVars, deployVars, modelVars, batchVars, instVars, concVars,
              clockVars, updVars, svcVars>>

EncryptionServiceEncryptCall ==
    /\ Called("EncryptionService.encrypt")
    /\ \E iv \in RandomBytes :
          util' = [fn |-> util.fn, pc |-> "returned", key |-> util.key,
                   data |-> util.data,
                   out |-> EncryptionServiceEncrypt(util.key, util.data, iv)]
    /\ UNCHANGED OtherVars

EncryptionServiceDecryptCall ==
    /\ Done("EncryptionService.encrypt")
    /\ util' = [fn |-> "EncryptionService.decrypt", pc |-> "returned",
                key |-> util.key, data |-> util.out, original |-> util.data,
                out |-> EncryptionServiceDecrypt(util.key, util.out)]
    /\ UNCHANGED OtherVars

EncryptionServiceEncryptDictCall ==
    /\ Called("EncryptionService.encrypt_dict")
    /\ \E iv \in RandomBytes :
          util' = [fn |-> util.fn, pc |-> "returned", key |-> util.key,
                   data |-> util.data,
                   out |-> EncryptionServiceEncryptDict(util.key, util.data, iv)]
    /\ UNCHANGED OtherVars

EncryptionServiceDecryptDictCall ==
    /\ Done("EncryptionService.encrypt_dict")
    /\ util' = [fn |-> "EncryptionService.decrypt_dict", pc |-> "returned",
                key |-> util.key, data |-> util.out, original |-> util.data,
                out |-> EncryptionServiceDecryptDict(util.key, util.out)]
    /\ UNCHANGED OtherVars

EncryptDataCall ==
    /\ Called("EncryptionManager.encrypt_data")
    /\ \E salt \in RandomBytes, iv \in RandomBytes :
          util' = [fn |-> util.fn, pc |-> "returned", key |-> util.key,
                   data |-> util.data, context |-> util.context,
                   out |-> EncryptData(util.key, util.data, util.context, salt, iv)]
    /\ UNCHANGED OtherVars

DecryptDataCall ==
    /\ Done("EncryptionManager.encrypt_data")
    /\ util' = [fn |-> "EncryptionManager.decrypt_data", pc |-> "returned",
                key |-> util.key, data |-> util.out, context |-> util.context,
                original |-> util.data,
                out |-> DecryptData(util.key, util.out, util.context)]
    /\ UNCHANGED OtherVars

NextEncryption ==
    \/ EncryptionServiceEncryptCall
    \/ EncryptionServiceDecryptCall
    \/ EncryptionServiceEncryptDictCall
    \/ EncryptionServiceDecryptDictCall
    \/ EncryptDataCall
    \/ DecryptDataCall

----------------------------------------------------------------------------
(* Masking of phone numbers *)

Stars == <<"*", "*", "*", "*">>

\* core/utils/encryption.py: mask_sensitive_data(data, "phone")
MaskSensitiveDataPhone(data) ==
    IF data = <<>> THEN <<>>
    ELSE IF Len(data) >= 10
    THEN SubSeq(data, 1, Len(data) - 4) \o Stars
    ELSE Stars

\* core/security/encryption.py: DataMasking.mask_phone_number
MaskPhoneNumber(phone) ==
    IF phone = <<>> \/ Len(phone) < 4 THEN Stars
    ELSE Stars \o SubSeq(phone, Len(phone) - 3, Len(phone))

ShortNumbers == {<<>>, <<"1", "0", "0">>, <<"9", "8", "7", "6", "5">>}

MaskInputs == PhoneSamples \cup ShortNumbers

MaskingCalls(u) ==
    \E fn \in {"mask_sensitive_data", "DataMasking.mask_phone_number"},
       data \in MaskInputs :
        u = [fn |-> fn, pc |-> "called", data |-> data]

MaskSensitiveDataCall ==
    /\ Called("mask_sensitive_data")
    /\ util' = [fn |-> util.fn, pc |-> "returned", data |-> util.data,
                out |-> MaskSensitiveDataPhone(util.data)]
    /\ UNCHANGED OtherVars

MaskPhoneNumberCall ==
    /\ Called("DataMasking.mask_phone_number")
    /\ util' = [fn |-> util.fn, pc |-> "returned", data |-> util.data,
                out |-> MaskPhoneNumber(util.data)]
    /\ UNCHANGED OtherVars

NextMasking ==
    \/ MaskSensitiveDataCall
    \/ MaskPhoneNumberCall

----------------------------------------------------------------------------
(* core/utils/validation.py *)

StartsWith(s, prefix) ==
    Len(s) >= Len(prefix) /\ SubSeq(s, 1, Len(prefix)) = prefix

DigitOrPlus(c) == IsDigit(c) \/ c = "+"

\* re.match(r'^[6-9]\d{9}$', mobile_part)
MobilePattern(s) ==
    /\ Len(s) = 10
    /\ s[1] \in {"6", "7", "8", "9"}
    /\ \A i \in 2..10 : IsDigit(s[i])

Invalid == [valid |-> FALSE, normalized |-> None]
Valid(normalized) == [valid |-> TRUE, normalized |-> Some(normalized)]

\* Variant of ValidatePhoneNumber whose 91 branch does not look at the length
ValidatePhoneNumberAny91(phone) ==
    LET cleaned == SelectSeq(phone, DigitOrPlus)
        mobile_part ==
            IF StartsWith(cleaned, <<"+", "9", "1">>)
            THEN Some(SubSeq(cleaned, 4, Len(cleaned)))
            ELSE IF StartsWith(cleaned, <<"9", "1">>)
            THEN Some(SubSeq(cleaned, 3, Len(cleaned)))
            ELSE IF StartsWith(cleaned, <<"0">>) /\ Len(cleaned) = 11
            THEN Some(SubSeq(cleaned, 2, Len(cleaned)))
            ELSE IF Len(cleaned) = 10 THEN Some(cleaned)
            ELSE None
    IN IF phone = <<>> THEN Invalid
       ELSE IF mobile_part = None THEN Invalid
       ELSE IF ~MobilePattern(mobile_part[1]) THEN Invalid
       ELSE Valid(<<"+", "9", "1">> \o mobile_part[1])

\* Variant of ValidatePhoneNumber that prefixes the country code to the
\* cleaned input instead of to its mobile part
ValidatePhoneNumberKeepsPrefix(phone) ==
    LET cleaned == SelectSeq(phone, DigitOrPlus)
        mobile_part ==
            IF StartsWith(cleaned, <<"+", "9", "1">>)
            THEN Some(SubSeq(cleaned, 4, Len(cleaned)))
            ELSE IF StartsWith(cleaned, <<"9", "1">>) /\ Len(cleaned) = 12
            THEN Some(SubSeq(cleaned, 3, Len(cleaned)))
            ELSE IF StartsWith(cleaned, <<"0">>) /\ Len(cleaned) = 11
            THEN Some(SubSeq(cleaned, 2, Len(cleaned)))
            ELSE IF Len(cleaned) = 10 THEN Some(cleaned)
            ELSE None
    IN IF phone = <<>> THEN Invalid
       ELSE IF mobile_part = None THEN Invalid
       ELSE IF ~MobilePattern(mobile_part[1]) THEN Invalid
       ELSE Valid(<<"+", "9", "1">> \o cleaned)

\* validate_phone_number(phone), country_code left at "+91"
ValidatePhoneNumber(phone) ==
    LET cleaned == SelectSeq(phone, DigitOrPlus)
        mobile_part ==
            IF StartsWith(cleaned, <<"+", "9", "1">>)
            THEN Some(SubSeq(cleaned, 4, Len(cleaned)))
            ELSE IF StartsWith(cleaned, <<"9", "1">>) /\ Len(cleaned) = 12
            THEN Some(SubSeq(cleaned, 3, Len(cleaned)))
            ELSE IF StartsWith(cleaned, <<"0">>) /\ Len(cleaned) = 11
            THEN Some(SubSeq(cleaned, 2, Len(cleaned)))
            ELSE IF Len(cleaned) = 10 THEN Some(cleaned)
            ELSE None
    IN IF phone = <<>> THEN Invalid
       ELSE IF mobile_part = None THEN Invalid
       ELSE IF ~MobilePattern(mobile_part[1]) THEN Invalid
       ELSE Valid(<<"+", "9", "1">> \o mobile_part[1])

LowerLetters == <<"a", "b", "c", "d", "e", "f", "p">>
UpperLetters == <<"A", "B", "C", "D", "E", "F", "P">>

\* str.upper(), one character
Upper(c) ==
    IF \E i \in DOMAIN LowerLetters : LowerLetters[i] = c
    THEN UpperLetters[CHOOSE i \in DOMAIN LowerLetters : LowerLetters[i] = c]
    ELSE c

IsUpperLetter(c) == \E i \in DOMAIN UpperLetters : UpperLetters[i] = c

NotSpace(c) == c # " "

\* re.match(r'^[A-Z]{5}[0-9]{4}[A-Z]{1}$', cleaned)
PanPattern(s) ==
    /\ Len(s) = 10
    /\ \A i \in 1..5 : IsUpperLetter(s[i])
    /\ \A i \in 6..9 : IsDigit(s[i])
    /\ IsUpperLetter(s[10])

\* validate_pan_number
ValidatePanNumber(pan) ==
    LET spaceless == SelectSeq(pan, NotSpace)
        cleaned == [i \in 1..Len(spaceless) |-> Upper(spaceless[i])]
    IN IF pan = <<>> THEN Invalid
       ELSE IF ~PanPattern(cleaned) THEN Invalid
       ELSE Valid(cleaned)

\* re.match(r'^[1-9][0-9]{5}$', cleaned)
PincodePattern(s) ==
    /\ Len(s) = 6
    /\ IsDigit(s[1]) /\ s[1] # "0"
    /\ \A i \in 2..6 : IsDigit(s[i])

\* validate_pincode
ValidatePincode(pincode) ==
    LET cleaned == SelectSeq(pincode, IsDigit)
    IN IF pincode = <<>> THEN Invalid
       ELSE IF ~PincodePattern(cleaned) THEN Invalid
       ELSE Valid(cleaned)

PanSamples ==
    {<<>>,
     <<"A", "B", "C", "P", "E", "1", "2", "3", "4", "F">>,
     <<"a", "b", "c", "p", "e", "1", "2", "3", "4", "f">>,
     <<"A", "B", "C", "P", "E", " ", "1", "2", "3", "4", " ", "f">>,
     <<"A", "B", "C", "P", "1", "2", "3", "4", "F">>,
     <<"A", "B", "C", "P", "E", "1", "2", "3", "4", "5">>,
     <<"A", "B", "C", "P", "E", "-", "1", "2", "3", "4", "F">>}

PincodeSamples ==
    {<<>>,
     <<"1", "1", "0", "0", "0", "1">>,
     <<"1", "1", "0", " ", "0", "0", "1">>,
     <<"P", "I", "N", "-", "5", "6", "0", "0", "0", "1">>,
     <<"0", "1", "1", "0", "0", "0">>,
     <<"1", "1", "0", "0", "0">>,
     <<"1", "1", "0", "0", "0", "1", "1">>}

\* _verify_aadhaar_checksum: the tables, rows and columns numbered from 0
multiplication_table ==
    <<<<0, 1, 2, 3, 4, 5, 6, 7, 8, 9>>,
      <<1, 2, 3, 4, 0, 6, 7, 8, 9, 5>>,
      <<2, 3, 4, 0, 1, 7, 8, 9, 5, 6>>,
      <<3, 4, 0, 1, 2, 8, 9, 5, 6, 7>>,
      <<4, 0, 1, 2, 3, 9, 5, 6, 7, 8>>,
      <<5, 9, 8, 7, 6, 0, 4, 3, 2, 1>>,
      <<6, 5, 9, 8, 7, 1, 0, 4, 3, 2>>,
      <<7, 6, 5, 9, 8, 2, 1, 0, 4, 3>>,
      <<8, 7, 6, 5, 9, 3, 2, 1, 0, 4>>,
      <<9, 8, 7, 6, 5, 4, 3, 2, 1, 0>>>>

permutation_table ==
    <<<<0, 1, 2, 3, 4, 5, 6, 7, 8, 9>>,
      <<1, 5, 7, 6, 2, 8, 3, 0, 9, 4>>,
      <<5, 8, 0, 3, 7, 9, 6, 1, 4, 2>>,
      <<8, 9, 1, 6, 0, 4, 3, 5, 2, 7>>,
      <<9, 4, 5, 3, 1, 2, 6, 8, 7, 0>>,
      <<4, 2, 8, 6, 5, 7, 3, 9, 0, 1>>,
      <<2, 7, 9, 3, 8, 0, 6, 4, 1, 5>>,
      <<7, 0, 4, 6, 9, 1, 3, 2, 5, 8>>>>

\* the checksum after the i rightmost digits of aadhaar
RECURSIVE ChecksumAfter(_, _)
ChecksumAfter(aadhaar, i) ==
    IF i = 0 THEN 0
    ELSE LET digit == DigitVal(aadhaar[Len(aadhaar) - i + 1])
         IN multiplication_table[ChecksumAfter(aadhaar, i - 1) + 1]
                                [permutation_table[((i - 1) % 8) + 1][digit + 1] + 1]

VerifyAadhaarChecksum(aadhaar) == ChecksumAfter(aadhaar, Len(aadhaar)) = 0

\* len(set(cleaned)) == 1
AllSame(s) == s # <<>> /\ \A i \in 1..Len(s) : s[i] = s[1]

\* Variant of ValidateAadhaarNumber without the all-digits-same check
ValidateAadhaarNumberNoSameCheck(aadhaar) ==
    LET cleaned == SelectSeq(aadhaar, IsDigit)
    IN IF aadhaar = <<>> THEN Invalid
       ELSE IF Len(cleaned) # 12 THEN Invalid
       ELSE IF ~VerifyAadhaarChecksum(cleaned) THEN Invalid
       ELSE Valid(cleaned)

\* validate_aadhaar_number
ValidateAadhaarNumber(aadhaar) ==
    LET cleaned == SelectSeq(aadhaar, IsDigit)
    IN IF aadhaar = <<>> THEN Invalid
       ELSE IF Len(cleaned) # 12 THEN Invalid
       ELSE IF AllSame(cleaned) THEN Invalid
       ELSE IF ~VerifyAadhaarChecksum(cleaned) THEN Invalid
       ELSE Valid(cleaned)

SampleAadhaar == <<"4", "9", "9", "1", "1", "8", "6", "6", "5", "9", "3", "2">>

TenLeading == <<"2", "3", "4", "1", "2", "3", "4", "1", "2", "3">>

AadhaarSamples ==
    {<<>>, SampleAadhaar,
     SubSeq(TenLeading, 1, 4) \o <<" ">> \o SubSeq(TenLeading, 5, 8) \o <<"-">>
         \o <<"2", "3", "4", "6">>,
     TenLeading \o <<"4">>, TenLeading \o <<"4", "6", "0">>}
    \cup {TenLeading \o <<DigitChar(a), DigitChar(b)>> : a \in 0..9, b \in 0..9}
    \cup {[i \in 1..12 |-> DigitChar(d)] : d \in 0..9}

Validators == {"validate_phone_number", "validate_pan_number", "validate_pincode"}

Validate(fn, value) ==
    CASE fn = "validate_phone_number" -> ValidatePhoneNumber(value)
      [] fn = "validate_pan_number"   -> ValidatePanNumber(value)
      [] fn = "validate_pincode"      -> ValidatePincode(value)

\* ten-digit numbers: three mobiles, a landline-like one, and a short one
TenDigitSamples ==
    {<<"9", "8", "7", "6", "5", "4", "3", "2", "1", "0">>,
     <<"9", "1", "9", "8", "7", "6", "5", "4", "3", "2">>,
     <<"6", "0", "0", "0", "0", "0", "0", "0", "0", "0">>,
     <<"5", "8", "7", "6", "5", "4", "3", "2", "1", "0">>,
     <<"9", "8", "7", "6", "5", "4", "3", "2", "1">>}

PrefixSamples ==
    {<<>>, <<"+", "9", "1">>, <<"9", "1">>, <<"0">>,
     <<"+">>, <<"0", "0">>, <<"+", "9", "2">>, <<"+", "9", "1", "0">>}

\* a number as typed: with a separator after the prefix, after the fifth
\* digit, or nowhere
Typed(prefix, number, sep, where) ==
    CASE where = "none"   -> prefix \o number
      [] where = "prefix" -> prefix \o <<sep>> \o number
      [] where = "middle" -> prefix \o SubSeq(number, 1, 5) \o <<sep>>
                                 \o SubSeq(number, 6, Len(number))

PhoneInputs ==
    {<<>>} \cup
    {Typed(prefix, number, sep, where) :
        prefix \in PrefixSamples, number \in TenDigitSamples,
        sep \in {" ", "-"}, where \in {"none", "prefix", "middle"}}

ValidationCalls(u) ==
    \/ \E phone \in PhoneInputs :
           u = [fn |-> "validate_phone_number", pc |-> "called", data |-> phone]
    \/ \E pan \in PanSamples :
           u = [fn |-> "validate_pan_number", pc |-> "called", data |-> pan]
    \/ \E pincode \in PincodeSamples :
           u = [fn |-> "validate_pincode", pc |-> "called", data |-> pincode]
    \/ \E aadhaar \in AadhaarSamples :
           u = [fn |-> "validate_aadhaar_number", pc |-> "called", data |-> aadhaar]

ValidatePhoneNumberCall ==
    /\ Called("validate_phone_number")
    /\ util' = [fn |-> util.fn, pc |-> "returned", data |-> util.data,
                out |-> ValidatePhoneNumber(util.data)]
    /\ UNCHANGED OtherVars

ValidatePanNumberCall ==
    /\ Called("validate_pan_number")
    /\ util' = [fn |-> util.fn, pc |-> "returned", data |-> util.data,
                out |-> ValidatePanNumber(util.data)]
    /\ UNCHANGED OtherVars

ValidatePincodeCall ==
    /\ Called("validate_pincode")
    /\ util' = [fn |-> util.fn, pc |-> "returned", data |-> util.data,
                out |-> ValidatePincode(util.data)]
    /\ UNCHANGED OtherVars

ValidateAadhaarNumberCall ==
    /\ Called("validate_aadhaar_number")
    /\ util' = [fn |-> util.fn, pc |-> "returned", data |-> util.data,
                out |-> ValidateAadhaarNumber(util.data)]
    /\ UNCHANGED OtherVars

\* the normalized value a validator returned is validated again
ValidateAgainCall ==
    /\ util.fn \in Validators
    /\ util.pc = "returned"
    /\ util.out.valid
    /\ util' = [fn |-> util.fn, pc |-> "returned again",
                data |-> util.out.normalized[1],
                out |-> Validate(util.fn, util.out.normalized[1])]
    /\ UNCHANGED OtherVars

NextValidation ==
    \/ ValidatePhoneNumberCall
    \/ ValidatePanNumberCall
    \/ ValidatePincodeCall
    \/ ValidateAadhaarNumberCall
    \/ ValidateAgainCall

----------------------------------------------------------------------------
(* core/utils/formatting.py: format_currency.  An amount is a whole number *)
(* of rupees.  The currency symbols and the Devanagari unit words are      *)
(* single tokens: "rupee-sign", "karor" (crore), "lakh", "hazar"           *)
(* (thousand).                                                             *)

OneCrore == 10000000
OneLakh == 100000
OneThousand == 1000
OneMillion == 1000000

\* f"{num / den:.2f}": the quotient rounded to hundredths.  No amount drawn
\* here falls exactly between two hundredths.
TwoDecimals(num, den) ==
    LET scaled == num * 100
        hundredths == IF 2 * (scaled % den) >= den
                      THEN (scaled \div den) + 1 ELSE scaled \div den
        cents == hundredths % 100
    IN NatStr(hundredths \div 100) \o <<".">>
       \o <<DigitChar(cents \div 10), DigitChar(cents % 10)>>

\* locale.startswith(prefix), for the locales in use
LocaleStartsWith(locale, prefix) ==
    CASE prefix = "hi"    -> locale \in {"hi-IN", "hi"}
      [] prefix = "en-IN" -> locale = "en-IN"

\* Variant of format_currency with the crore threshold one digit too long
FormatCurrencyLateCrore(amount, currency, locale, include_symbol) ==
    LET symbol == CASE currency = "INR" -> "rupee-sign"
                    [] currency = "USD" -> "$"
                    [] currency = "EUR" -> "euro-sign"
                    [] currency = "GBP" -> "pound-sign"
                    [] OTHER -> currency
        hi == LocaleStartsWith(locale, "hi")
        formatted ==
            IF hi \/ LocaleStartsWith(locale, "en-IN")
            THEN IF amount >= (10 * OneCrore)
                 THEN TwoDecimals(amount, (10 * OneCrore))
                      \o (IF hi THEN <<" ", "karor">> ELSE <<" ", "C", "r">>)
                 ELSE IF amount >= OneLakh
                 THEN TwoDecimals(amount, OneLakh)
                      \o (IF hi THEN <<" ", "lakh">> ELSE <<" ", "L">>)
                 ELSE IF amount >= OneThousand
                 THEN TwoDecimals(amount, OneThousand)
                      \o (IF hi THEN <<" ", "hazar">> ELSE <<" ", "K">>)
                 ELSE TwoDecimals(amount, 1)
            ELSE IF amount >= OneMillion
                 THEN TwoDecimals(amount, OneMillion) \o <<"M">>
                 ELSE IF amount >= OneThousand
                 THEN TwoDecimals(amount, OneThousand) \o <<"K">>
                 ELSE TwoDecimals(amount, 1)
    IN IF include_symbol THEN <<symbol>> \o formatted ELSE formatted

\* format_currency
FormatCurrency(amount, currency, locale, include_symbol) ==
    LET symbol == CASE currency = "INR" -> "rupee-sign"
                    [] currency = "USD" -> "$"
                    [] currency = "EUR" -> "euro-sign"
                    [] currency = "GBP" -> "pound-sign"
                    [] OTHER -> currency
        hi == LocaleStartsWith(locale, "hi")
        formatted ==
            IF hi \/ LocaleStartsWith(locale, "en-IN")
            THEN IF amount >= OneCrore
                 THEN TwoDecimals(amount, OneCrore)
                      \o (IF hi THEN <<" ", "karor">> ELSE <<" ", "C", "r">>)
                 ELSE IF amount >= OneLakh
                 THEN TwoDecimals(amount, OneLakh)
                      \o (IF hi THEN <<" ", "lakh">> ELSE <<" ", "L">>)
                 ELSE IF amount >= OneThousand
                 THEN TwoDecimals(amount, OneThousand)
                      \o (IF hi THEN <<" ", "hazar">> ELSE <<" ", "K">>)
                 ELSE TwoDecimals(amount, 1)
            ELSE IF amount >= OneMillion
                 THEN TwoDecimals(amount, OneMillion) \o <<"M">>
                 ELSE IF amount >= OneThousand
                 THEN TwoDecimals(amount, OneThousand) \o <<"K">>
                 ELSE TwoDecimals(amount, 1)
    IN IF include_symbol THEN <<symbol>> \o formatted ELSE formatted

AmountSamples ==
    {0, 500, 999, 1000, 1500, 99999, 100000, 250000, 9999999, 10000000,
     12500000, 1000000}

CurrencySamples == {"INR", "USD", "XAF"}
LocaleSamples == {"hi-IN", "en-IN", "en-US"}

FormattingCalls(u) ==
    \E amount \in AmountSamples, currency \in CurrencySamples,
       locale \in LocaleSamples, include_symbol \in BOOLEAN :
        u = [fn |-> "format_currency", pc |-> "called", amount |-> amount,
             currency |-> currency, locale |-> locale,
             include_symbol |-> include_symbol]

FormatCurrencyCall ==
    /\ Called("format_currency")
    /\ util' = [util EXCEPT !.pc = "returned"] @@
                ("out" :> FormatCurrency(util.amount, util.currency, util.locale,
                                         util.include_symbol))
    /\ UNCHANGED OtherVars

NextFormatting ==
    \/ FormatCurrencyCall

UtilityCalls(u) ==
    \/ EncryptionCalls(u)
    \/ MaskingCalls(u)
    \/ ValidationCalls(u)
    \/ FormattingCalls(u)

InitUtils == InitWith(DefaultSettings) /\ UtilityCalls(util)

NextUtils ==
    \/ NextEncryption
    \/ NextMasking
    \/ NextValidation
    \/ NextFormatting

SpecUtils == InitUtils /\ [][NextUtils]_vars

----------------------------------------------------------------------------
(* core/database/dynamodb_client.py: DynamoDBClient.batch_write_items.     *)
(* Items are counted, not told apart.  calls lists, for the chunk in hand, *)
(* each batch_write_item call as [requested, unprocessed]; sleeps lists    *)
(* the time.sleep() arguments between them.                                *)

batch_size == 25
max_retries == 3

RECURSIVE Pow2(_)
Pow2(n) == IF n = 0 THEN 1 ELSE 2 * Pow2(n - 1)

\* Variant of Backoff that starts the exponent at 1
BackoffFromTwo(retry_count) == Pow2(retry_count + 1)

\* time.sleep(2 ** retry_count)
Backoff(retry_count) == Pow2(retry_count)

\* while unprocessed and retry_count < max_retries
ShouldRetry(unprocessed, retry_count) ==
    unprocessed > 0 /\ retry_count < max_retries

ItemCounts == {0, 1, batch_size, batch_size + 1, MaxBatchItems}

\* what batch_write_item may answer to a request of n items: how many it
\* left unprocessed, or a ClientError
BatchWriteItemAnswers(n) ==
    {[error |-> FALSE, unprocessed |-> k] :
        k \in {0, n} \cup (IF n > 1 THEN {1} ELSE {})}
    \cup {[error |-> TRUE, unprocessed |-> 0]}

BatchOthers == <<apiVars, deployVars, modelVars, utilVars, instVars, concVars,
                clockVars, updVars, svcVars>>

BatchWriteItems ==
    /\ batch.pc = "idle"
    /\ \E n \in ItemCounts :
          batch' = [pc |-> "for", items |-> n, i |-> 0, success_count |-> 0,
                    calls |-> <<>>, sleeps |-> <<>>]
    /\ UNCHANGED BatchOthers

\* for i in range(0, len(items), batch_size): the first batch_write_item of
\* a chunk, or the return after the last chunk
BatchWriteChunk ==
    /\ batch.pc = "for"
    /\ IF batch.i >= batch.items
       THEN batch' = [batch EXCEPT !.pc = "returned"] @@
                     ("result" :> (batch.success_count = batch.items))
       ELSE LET n == Min(batch_size, batch.items - batch.i)
            IN \E answer \in BatchWriteItemAnswers(n) :
                  IF answer.error
                  THEN batch' = [batch EXCEPT !.pc = "returned"] @@
                                ("result" :> FALSE)
                  ELSE batch' = [pc |-> "while", items |-> batch.items,
                                 i |-> batch.i,
                                 success_count |-> batch.success_count,
                                 size |-> n,
                                 unprocessed |-> answer.unprocessed,
                                 retry_count |-> 0,
                                 calls |-> <<[requested |-> n,
                                              unprocessed |-> answer.unprocessed]>>,
                                 sleeps |-> <<>>]
    /\ UNCHANGED BatchOthers

\* one turn of the while loop: sleep, then write the unprocessed items again
BatchWriteRetry ==
    /\ batch.pc = "while"
    /\ ShouldRetry(batch.unprocessed, batch.retry_count)
    /\ \E answer \in BatchWriteItemAnswers(batch.unprocessed) :
          LET slept == Append(batch.sleeps, Backoff(batch.retry_count))
          IN IF answer.error
             THEN batch' = [batch EXCEPT !.pc = "returned", !.sleeps = slept]
                           @@ ("result" :> FALSE)
             ELSE batch' = [batch EXCEPT
                              !.sleeps = slept,
                              !.calls = Append(@, [requested |-> batch.unprocessed,
                                                   unprocessed |-> answer.unprocessed]),
                              !.unprocessed = answer.unprocessed,
                              !.retry_count = @ + 1]
    /\ UNCHANGED BatchOthers

\* the loop is left: the chunk counts as written if nothing is unprocessed
BatchWriteChunkDone ==
    /\ batch.pc = "while"
    /\ ~ShouldRetry(batch.unprocessed, batch.retry_count)
    /\ batch' = [pc |-> "for", items |-> batch.items,
                 i |-> batch.i + batch_size,
                 success_count |-> IF batch.unprocessed = 0
                                   THEN batch.success_count + batch.size
                                   ELSE batch.success_count,
                 calls |-> batch.calls, sleeps |-> batch.sleeps]
    /\ UNCHANGED BatchOthers

\* the caller takes the result; the client is ready for the next call
BatchWriteReturn ==
    /\ batch.pc = "returned"
    /\ batch' = [pc |-> "idle"]
    /\ UNCHANGED BatchOthers

NextBatch ==
    \/ BatchWriteItems
    \/ BatchWriteChunk
    \/ BatchWriteRetry
    \/ BatchWriteChunkDone
    \/ BatchWriteReturn

SpecBatch == Init /\ [][NextBatch]_vars

----------------------------------------------------------------------------
(* Model instances under validate_assignment=True: an assignment runs the  *)
(* constraints and the validators of the assigned field only, handing them *)
(* the current values of the other fields.  A refused construction or      *)
(* assignment raises and leaves the instance as it was.                    *)

InstOthers == <<apiVars, deployVars, modelVars, utilVars, batchVars, concVars,
               clockVars, updVars, svcVars>>

\* core/models/farmer.py FarmDetails: the constraints of total_land_area
TotalLandAreaOk(v) == CoreAreaOk(v)

\* core/models/farmer.py FarmDetails: crops, with validate_total_crop_area
CropsOk(areas, total) ==
    /\ \A i \in 1..Len(areas) : CoreAreaOk(areas[i])
    /\ (areas # <<>> => ~(SumAreas(areas) > total))

\* models/conversation.py ConversationMessage.validate_delivered_after_sent
DeliveredAtOk(v, sent_at) == ~(v # None /\ v[1] < sent_at)

\* models/conversation.py ConversationMessage.validate_read_after_delivered
ReadAtOk(v, delivered_at) ==
    ~(v # None /\ delivered_at # None /\ v[1] < delivered_at[1])

ImplementationStatus ==
    {"not_implemented", "partially_implemented", "fully_implemented",
     "cannot_implement"}

\* core/models/recommendation.py Feedback: conint(ge=1, le=5) and
\* validate_effectiveness_with_implementation
EffectivenessRatingOk(v, implemented) ==
    /\ (v # None => (v[1] >= 1 /\ v[1] <= 5))
    /\ ~(v # None /\ implemented = "not_implemented")

Refused == [inst EXCEPT !.accepted = FALSE]

ConstructFarmDetails ==
    /\ \E total \in TotalSamples, areas \in AreaLists :
          inst' = IF TotalLandAreaOk(total) /\ CropsOk(areas, total)
                  THEN [model |-> "core.FarmDetails", accepted |-> TRUE,
                        total_land_area |-> total, crops |-> areas]
                  ELSE [model |-> "none", accepted |-> FALSE]
    /\ UNCHANGED InstOthers

AssignTotalLandArea ==
    /\ inst.model = "core.FarmDetails"
    /\ \E v \in TotalSamples :
          inst' = IF TotalLandAreaOk(v)
                  THEN [inst EXCEPT !.total_land_area = v, !.accepted = TRUE]
                  ELSE Refused
    /\ UNCHANGED InstOthers

AssignCrops ==
    /\ inst.model = "core.FarmDetails"
    /\ \E v \in AreaLists :
          inst' = IF CropsOk(v, inst.total_land_area)
                  THEN [inst EXCEPT !.crops = v, !.accepted = TRUE]
                  ELSE Refused
    /\ UNCHANGED InstOthers

ConstructConversationMessage ==
    /\ \E sent_at \in 1..MaxDay, delivered_at \in OptionalDays,
          read_at \in OptionalDays :
          inst' = IF /\ DeliveredAtOk(delivered_at, sent_at)
                     /\ ReadAtOk(read_at, delivered_at)
                  THEN [model |-> "ConversationMessage", accepted |-> TRUE,
                        sent_at |-> sent_at, delivered_at |-> delivered_at,
                        read_at |-> read_at]
                  ELSE [model |-> "none", accepted |-> FALSE]
    /\ UNCHANGED InstOthers

AssignSentAt ==
    /\ inst.model = "ConversationMessage"
    /\ \E v \in 1..MaxDay :
          inst' = [inst EXCEPT !.sent_at = v, !.accepted = TRUE]
    /\ UNCHANGED InstOthers

AssignDeliveredAt ==
    /\ inst.model = "ConversationMessage"
    /\ \E v \in OptionalDays :
          inst' = IF DeliveredAtOk(v, inst.sent_at)
                  THEN [inst EXCEPT !.delivered_at = v, !.accepted = TRUE]
                  ELSE Refused
    /\ UNCHANGED InstOthers

AssignReadAt ==
    /\ inst.model = "ConversationMessage"
    /\ \E v \in OptionalDays :
          inst' = IF ReadAtOk(v, inst.delivered_at)
                  THEN [inst EXCEPT !.read_at = v, !.accepted = TRUE]
                  ELSE Refused
    /\ UNCHANGED InstOthers

RatingSamples == {None, Some(0), Some(1), Some(5)}

ConstructFeedback ==
    /\ \E implemented \in ImplementationStatus, rating \in RatingSamples :
          inst' = IF EffectivenessRatingOk(rating, implemented)
                  THEN [model |-> "Feedback", accepted |-> TRUE,
                        implemented |-> implemented,
                        effectiveness_rating |-> rating]
                  ELSE [model |-> "none", accepted |-> FALSE]
    /\ UNCHANGED InstOthers

AssignImplemented ==
    /\ inst.model = "Feedback"
    /\ \E v \in ImplementationStatus :
          inst' = [inst EXCEPT !.implemented = v, !.accepted = TRUE]
    /\ UNCHANGED InstOthers

AssignEffectivenessRating ==
    /\ inst.model = "Feedback"
    /\ \E v \in RatingSamples :
          inst' = IF EffectivenessRatingOk(v, inst.implemented)
                  THEN [inst EXCEPT !.effectiveness_rating = v, !.accepted = TRUE]
                  ELSE Refused
    /\ UNCHANGED InstOthers

NextInstances ==
    \/ ConstructFarmDetails
    \/ AssignTotalLandArea
    \/ AssignCrops
    \/ ConstructConversationMessage
    \/ AssignSentAt
    \/ AssignDeliveredAt
    \/ AssignReadAt
    \/ ConstructFeedback
    \/ AssignImplemented
    \/ AssignEffectivenessRating

SpecInstances == Init /\ [][NextInstances]_vars

----------------------------------------------------------------------------
(* Timestamps of live records: core/models/farmer.py FarmerProfile, and    *)
(* models/conversation.py ConversationHistory over models/base.py          *)
(* TimestampedModel.  changed_at records the clock at the last accepted    *)
(* change of the instance, and added the messages handed to add_message.   *)

ClockReadings == 0..MaxClock

\* datetime.utcnow() reads later
Tick ==
    /\ now < MaxClock
    /\ now' = now + 1
    /\ UNCHANGED <<apiVars, deployVars, modelVars, utilVars, batchVars,
                   instVars, concVars, updVars, svcVars>>

\* FarmerProfile(...): created_at by its default factory; updated_at by the
\* validator set_updated_at, whatever was passed
ConstructFarmerProfile ==
    /\ \E passed \in ClockReadings :
          inst' = [model |-> "FarmerProfile", accepted |-> TRUE,
                   is_active |-> TRUE,
                   created_at |-> now, created_first |-> now,
                   updated_at |-> now, changed_at |-> now]
    /\ UNCHANGED InstOthers

\* profile.is_active = v: the validators of is_active run, and no other
AssignIsActive ==
    /\ inst.model = "FarmerProfile"
    /\ \E v \in BOOLEAN :
          inst' = [inst EXCEPT !.is_active = v, !.changed_at = now]
    /\ UNCHANGED InstOthers

\* profile.updated_at = v: set_updated_at replaces v by the clock
AssignUpdatedAt ==
    /\ inst.model = "FarmerProfile"
    /\ \E v \in ClockReadings :
          inst' = [inst EXCEPT !.updated_at = now, !.changed_at = now]
    /\ UNCHANGED InstOthers

\* Variant of AddMessage that keeps the latest sent time seen
AddMessageKeepsLatest(history, message, t) ==
    [history EXCEPT
        !.messages = Append(@, [message EXCEPT
                                   !.conversation_id = history.conversation_id]),
        !.last_message_at =
            IF @ # None /\ @[1] > message.sent_at THEN @
            ELSE Some(message.sent_at),
        !.updated_at = t]

\* ConversationHistory.add_message, called when the clock reads t
AddMessage(history, message, t) ==
    [history EXCEPT
        !.messages = Append(@, [message EXCEPT
                                   !.conversation_id = history.conversation_id]),
        !.last_message_at = Some(message.sent_at),
        !.updated_at = t]

ConversationIds == {"c1", "c2"}

MessageIds == {"m1", "m2"}

\* the messages a caller holds: each belongs to some conversation already
MessageSamples ==
    [conversation_id : ConversationIds, message_id : MessageIds,
     sent_at : ClockReadings]

ConstructConversationHistory ==
    /\ inst' = [model |-> "ConversationHistory", accepted |-> TRUE,
                conversation_id |-> "c1", messages |-> <<>>,
                last_message_at |-> None,
                created_at |-> now, created_first |-> now,
                updated_at |-> now, changed_at |-> now, added |-> <<>>]
    /\ UNCHANGED InstOthers

AddMessageCall ==
    /\ inst.model = "ConversationHistory"
    /\ Len(inst.messages) < MaxMessages
    /\ \E message \in MessageSamples :
          inst' = [AddMessage(inst, message, now) EXCEPT
                      !.changed_at = now, !.added = Append(@, message)]
    /\ UNCHANGED InstOthers

NextRecords ==
    \/ Tick
    \/ ConstructFarmerProfile
    \/ AssignIsActive
    \/ AssignUpdatedAt
    \/ ConstructConversationHistory
    \/ AddMessageCall

SpecRecords == Init /\ [][NextRecords]_vars

----------------------------------------------------------------------------
(* core/database/session_manager.py: the singleton SessionManager.  A      *)
(* client is named by the order of its construction; sm.open holds the     *)
(* clients that sessions in progress were given.                           *)

SvcOthers == <<apiVars, deployVars, modelVars, utilVars, batchVars, instVars,
               concVars, clockVars, updVars>>

\* the property dynamodb_client: the state after the access, and what it
\* returns
DynamodbClientProperty(s) ==
    IF s.client = None
    THEN [s EXCEPT !.client = Some(s.constructed + 1),
                   !.constructed = s.constructed + 1]
    ELSE s

CanAccess == sm.client # None \/ sm.constructed < MaxClients

\* health_check(): reads the property and probes the store
SessionHealthCheck ==
    /\ CanAccess
    /\ \E healthy \in BOOLEAN :
          LET s == DynamodbClientProperty(sm)
          IN sm' = [client |-> s.client, constructed |-> s.constructed,
                    open |-> s.open, op |-> "health_check",
                    returned |-> s.client[1], result |-> healthy]
    /\ UNCHANGED <<ddl, wa, SvcOthers>>

\* initialize_database(): reads the property and creates the tables
InitializeDatabase ==
    /\ CanAccess
    /\ \E success \in BOOLEAN :
          LET s == DynamodbClientProperty(sm)
          IN sm' = [client |-> s.client, constructed |-> s.constructed,
                    open |-> s.open, op |-> "initialize_database",
                    returned |-> s.client[1], result |-> success]
    /\ UNCHANGED <<ddl, wa, SvcOthers>>

\* async with get_session() as db: the body is entered with the property's
\* value
GetSessionEnter ==
    /\ CanAccess
    /\ LET s == DynamodbClientProperty(sm)
       IN sm' = [client |-> s.client, constructed |-> s.constructed,
                 open |-> s.open \cup {s.client[1]}, op |-> "get_session",
                 returned |-> s.client[1], result |-> TRUE]
    /\ UNCHANGED <<ddl, wa, SvcOthers>>

\* the body of a session ends: nothing is cleaned up
GetSessionExit ==
    /\ \E c \in sm.open :
          sm' = [client |-> sm.client, constructed |-> sm.constructed,
                 open |-> sm.open \ {c}, op |-> "session exit",
                 returned |-> c, result |-> TRUE]
    /\ UNCHANGED <<ddl, wa, SvcOthers>>

\* close_connections() and reset(): both forget the cached client
CloseConnections ==
    /\ \E op \in {"close_connections", "reset"} :
          sm' = [client |-> None, constructed |-> sm.constructed,
                 open |-> sm.open, op |-> op]
    /\ UNCHANGED <<ddl, wa, SvcOthers>>

NextSession ==
    \/ InitializeDatabase
    \/ SessionHealthCheck
    \/ GetSessionEnter
    \/ GetSessionExit
    \/ CloseConnections

SpecSession == Init /\ [][NextSession]_vars

----------------------------------------------------------------------------
(* core/database/schemas.py DynamoDBSchemas.create_all_tables.  ddl.status *)
(* is the store's state of each table, ddl.first the state the call found, *)
(* ddl.created the tables create_table was sent for, ddl.timed_out those   *)
(* whose waiter gave up.                                                   *)

\* get_all_table_schemas(): the TableName of each schema, in order
TableOrder ==
    <<"FarmerProfiles", "AgriculturalIntelligence", "Recommendations",
      "Conversations", "SensorReadings">>

TableNames == {TableOrder[i] : i \in DOMAIN TableOrder}

\* WaiterConfig of the table_exists waiter
Delay == 5
MaxAttempts == 20

\* Variant of AllTablesResult that is content with one table
AllTablesResultAny(success_count) == success_count > 0

\* create_all_tables: success_count == len(schemas)
AllTablesResult(success_count) == success_count = Len(TableOrder)

\* create_table has returned ok for the table in hand: the loop goes on to
\* the next schema, or create_all_tables returns
TableHandled(d, ok) ==
    LET count == IF ok THEN d.success_count + 1 ELSE d.success_count
    IN IF d.i = Len(TableOrder)
       THEN [pc |-> "returned", i |-> d.i, success_count |-> count,
             status |-> d.status, first |-> d.first, created |-> d.created,
             timed_out |-> d.timed_out, attempts |-> 0, slept |-> 0,
             result |-> AllTablesResult(count)]
       ELSE [pc |-> "describe_table", i |-> d.i + 1, success_count |-> count,
             status |-> d.status, first |-> d.first, created |-> d.created,
             timed_out |-> d.timed_out, attempts |-> 0, slept |-> 0,
             result |-> FALSE]

DdlOthers == <<sm, wa, SvcOthers>>

DdlFaults == {"none", "ClientError"}

CreateAllTables ==
    /\ ddl.pc = "idle"
    /\ \E status \in [TableNames -> {"absent", "ACTIVE"}] :
          ddl' = [pc |-> "describe_table", i |-> 1, success_count |-> 0,
                  status |-> status, first |-> status, created |-> {},
                  timed_out |-> {}, attempts |-> 0, slept |-> 0,
                  result |-> FALSE]
    /\ UNCHANGED DdlOthers

\* create_table: describe_table answers, fails with ResourceNotFoundException,
\* or fails otherwise
DescribeTable ==
    /\ ddl.pc = "describe_table"
    /\ \E fault \in DdlFaults :
          ddl' = IF fault # "none" THEN TableHandled(ddl, FALSE)
                 ELSE IF ddl.status[TableOrder[ddl.i]] # "absent"
                      THEN TableHandled(ddl, TRUE)
                 ELSE [ddl EXCEPT !.pc = "create_table"]
    /\ UNCHANGED DdlOthers

\* create_table: the create call is accepted or fails
CreateTable ==
    /\ ddl.pc = "create_table"
    /\ \E fault \in DdlFaults :
          ddl' = IF fault # "none" THEN TableHandled(ddl, FALSE)
                 ELSE [ddl EXCEPT !.pc = "wait",
                                  !.status[TableOrder[ddl.i]] = "CREATING",
                                  !.created = @ \cup {TableOrder[ddl.i]}]
    /\ UNCHANGED DdlOthers

\* one attempt of the waiter: the table is active by now, or it is not and
\* the waiter sleeps or gives up
WaiterAttempt ==
    /\ ddl.pc = "wait"
    /\ \E active \in BOOLEAN :
          ddl' = IF active
                 THEN TableHandled(
                          [ddl EXCEPT !.status[TableOrder[ddl.i]] = "ACTIVE"],
                          TRUE)
                 ELSE IF ddl.attempts + 1 >= MaxAttempts
                      THEN TableHandled(
                               [ddl EXCEPT !.timed_out =
                                               @ \cup {TableOrder[ddl.i]}],
                               FALSE)
                 ELSE [ddl EXCEPT !.attempts = @ + 1, !.slept = @ + Delay]
    /\ UNCHANGED DdlOthers

NextSchemas ==
    \/ CreateAllTables
    \/ DescribeTable
    \/ CreateTable
    \/ WaiterAttempt

SpecSchemas == Init /\ [][NextSchemas]_vars

----------------------------------------------------------------------------
(* api/v1/whatsapp.py: POST /whatsapp/webhook.  A payload is the parsed    *)
(* body or what stands in its place; an acknowledgement is the sequence of *)
(* the parts of its text, the Hindi sentences being named by tokens:       *)
(* "message-received" and "will-answer" around the echoed body,            *)
(* "photo-notice", "audio-notice", and "welcome" for any other type.       *)

\* the key "text" of a message is <<"absent">>, <<"object", body>> for an
\* object with a body, or <<"string", s>> for a bare string

\* message.get("text", {}).get("body", "")
TextBody(message) ==
    IF message.text[1] = "absent" THEN Returned("")
    ELSE IF message.text[1] = "object" THEN Returned(message.text[2])
    ELSE Raised("AttributeError")

\* Variant of ResponseText that answers every type with the welcome
ResponseTextWelcomeOnly(message) == Returned(<<"welcome">>)

\* process_whatsapp_message: the response_text it sends, or what it raises
ResponseText(message) ==
    IF message.type = "text"
    THEN IF ~TextBody(message).ok THEN TextBody(message)
         ELSE Returned(<<"message-received", TextBody(message).value,
                         "will-answer">>)
    ELSE IF message.type = "image" THEN Returned(<<"photo-notice">>)
    ELSE IF message.type = "audio" THEN Returned(<<"audio-notice">>)
    ELSE Returned(<<"welcome">>)

\* a change of field "messages" whose messages can all be processed
GoodChange ==
    [field |-> "messages",
     messages |-> <<[from |-> "919876543210", type |-> "text",
                     text |-> <<"object", "hello">>],
                    [from |-> "919876543210", type |-> "image",
                     text |-> <<"absent">>],
                    [from |-> "919876543210", type |-> "video",
                     text |-> <<"absent">>]>>]

\* a change of field "messages" whose first message has a string for "text"
BadTextChange ==
    [field |-> "messages",
     messages |-> <<[from |-> "919876543210", type |-> "text",
                     text |-> <<"string", "hello">>],
                    [from |-> "919876543210", type |-> "audio",
                     text |-> <<"string", "hello">>]>>]

\* a change of another field that carries a message
StatusesChange ==
    [field |-> "statuses",
     messages |-> <<[from |-> "919876543210", type |-> "audio",
                     text |-> <<"absent">>]>>]

EntrySamples ==
    {<<>>, <<GoodChange>>, <<BadTextChange>>, <<StatusesChange>>,
     <<GoodChange, StatusesChange>>, <<StatusesChange, GoodChange>>,
     <<GoodChange, BadTextChange>>}

\* what request.json() gives: it raises (the body is no JSON), or the body
\* parses to an array, a number, or an object without "entry", with a
\* number under "entry", or with a list of entries
Payloads ==
    { [shape |-> s, entry |-> <<>>] :
          s \in {"no JSON", "array", "number", "no entry", "entry is a number"} }
    \cup { [shape |-> "entries", entry |-> es] :
              es \in UNION {[1..n -> EntrySamples] : n \in 0..MaxEntries} }

\* the (entry, change, message) positions the loops of the handler reach,
\* in the order they reach them
Positions(payload, fields) ==
    LET inOrder(p, q) ==
            \/ p[1] < q[1]
            \/ p[1] = q[1] /\ p[2] < q[2]
            \/ p[1] = q[1] /\ p[2] = q[2] /\ p[3] < q[3]
        at == UNION {UNION {{<<x, c, m>> :
                                m \in DOMAIN payload.entry[x][c].messages} :
                            c \in {d \in DOMAIN payload.entry[x] :
                                      payload.entry[x][d].field \in fields}} :
                     x \in DOMAIN payload.entry}
        nth(n) == CHOOSE p \in at :
                      Cardinality({q \in at : inOrder(q, p)}) = n - 1
    IN [n \in 1..Cardinality(at) |-> nth(n)]

\* for entry ... for change ... if change.get("field") == "messages"
LoopPositions(payload) == Positions(payload, {"messages"})

MessageAt(payload, p) == payload.entry[p[1]][p[2]].messages[p[3]]

\* except Exception: the 500 the handler raises
WebhookFailed == HTTPException(500, <<"Failed to process webhook">>)

WaOthers == <<sm, ddl, SvcOthers>>

\* the request arrives and its body is read
HandleWhatsappWebhook ==
    /\ wa.pc = "idle"
    /\ \E payload \in Payloads :
          wa' = IF payload.shape \in {"no JSON", "number", "entry is a number"}
                THEN [pc |-> "responded", payload |-> payload,
                      dispatched |-> <<>>, sends |-> <<>>,
                      error |-> IF payload.shape = "no JSON"
                                THEN "JSONDecodeError" ELSE "TypeError",
                      resp |-> WebhookFailed]
                ELSE [pc |-> "messages", payload |-> payload,
                      dispatched |-> <<>>, sends |-> <<>>, error |-> "none",
                      resp |-> [status |-> 0, body |-> [detail |-> <<>>]]]
    /\ UNCHANGED WaOthers

\* await process_whatsapp_message(message, value) for the next message
ProcessWhatsappMessage ==
    /\ wa.pc = "messages"
    /\ Len(wa.dispatched) < Len(LoopPositions(wa.payload))
    /\ LET p == LoopPositions(wa.payload)[Len(wa.dispatched) + 1]
           message == MessageAt(wa.payload, p)
           text == ResponseText(message)
       IN wa' = IF ~text.ok
                THEN [wa EXCEPT !.pc = "responded",
                                !.dispatched = Append(@, p),
                                !.error = text.error,
                                !.resp = WebhookFailed]
                ELSE [wa EXCEPT !.dispatched = Append(@, p),
                                !.sends = Append(@, [to |-> message.from,
                                                     at |-> p,
                                                     message |-> text.value])]
    /\ UNCHANGED WaOthers

\* return {"status": "success"}
WebhookReturns ==
    /\ wa.pc = "messages"
    /\ Len(wa.dispatched) = Len(LoopPositions(wa.payload))
    /\ wa' = [wa EXCEPT !.pc = "responded",
                        !.resp = [status |-> 200,
                                  body |-> [detail |-> <<"success">>]]]
    /\ UNCHANGED WaOthers

NextWebhook ==
    \/ HandleWhatsappWebhook
    \/ ProcessWhatsappMessage
    \/ WebhookReturns

SpecWebhook == Init /\ [][NextWebhook]_vars

----------------------------------------------------------------------------
(* Concurrent creates of one id: BaseRepository.create over                *)
(* DynamoDBClient.put_item (core/database.py), whose table is keyed by id, *)
(* and create_farmer_profile (api/v1/farmers.py).  The store evaluates one *)
(* conditional put at a time; everything else of a create is local to it.  *)

\* DynamoDBClient.put_item with a condition_expression: True, False, or
\* DynamoDBError raised
DynamoDBClientPutItem(outcome) ==
    IF outcome = "ok" THEN "True"
    ELSE IF outcome = "ConditionalCheckFailedException" THEN "False"
    ELSE "DynamoDBError"

\* BaseRepository.create, from what put_item did
BaseRepositoryCreate(outcome) ==
    LET success == DynamoDBClientPutItem(outcome)
    IN IF success = "DynamoDBError" THEN "DynamoDBError"
       ELSE IF success = "False" THEN "ValidationError: Item already exists"
       ELSE "returned"

\* create_farmer_profile, from what put_item did: the status and detail
CreateFarmerProfileOutcome(c, id, outcome) ==
    LET r == CreateFarmerProfileResponse(BaseProfile, id, c, outcome)
    IN IF r.status = 201 THEN "201"
       ELSE IF r.status = 409 THEN "409: Farmer profile already exists"
       ELSE "500"

CreatePaths == {"BaseRepository.create", "create_farmer_profile"}

\* the item creator c writes
CreatedItem(c, via, id) ==
    IF via = "create_farmer_profile" THEN FarmerItem(BaseProfile, id, c)
    ELSE [id |-> id, created_by |-> c]

ConcOthers == <<settings, req, resp, storeCalls, deployVars, modelVars,
                utilVars, batchVars, instVars, clockVars, updVars, svcVars>>

\* a create is called: its item is built
CreateCalled(c) ==
    /\ creators[c].pc = "idle"
    /\ \E via \in CreatePaths, id \in FarmerIds :
          creators' = [creators EXCEPT ![c] = [pc |-> "put_item", via |-> via,
                                              id |-> id]]
    /\ UNCHANGED <<table, puts, ConcOthers>>

\* the store evaluates the create's conditional put
CreatePutItem(c) ==
    /\ creators[c].pc = "put_item"
    /\ \E fault \in StoreFaults :
          LET id == creators[c].id
              outcome == PutItemOutcome(table, id, fault)
          IN /\ table' = IF outcome = "ok"
                         THEN [table EXCEPT ![id] =
                                  Some(CreatedItem(c, creators[c].via, id))]
                         ELSE table
             /\ puts' = IF outcome = "ok" THEN Append(puts, c) ELSE puts
             /\ creators' = [creators EXCEPT ![c] =
                                 [pc |-> "answered", via |-> creators[c].via,
                                  id |-> id, put_item |-> outcome]]
    /\ UNCHANGED ConcOthers

\* the create ends: it returns or raises
CreateEnds(c) ==
    /\ creators[c].pc = "answered"
    /\ creators' = [creators EXCEPT ![c] =
                        [pc |-> "ended", via |-> creators[c].via,
                         id |-> creators[c].id,
                         put_item |-> creators[c].put_item,
                         outcome |->
                             IF creators[c].via = "BaseRepository.create"
                             THEN BaseRepositoryCreate(creators[c].put_item)
                             ELSE CreateFarmerProfileOutcome(c, creators[c].id,
                                      creators[c].put_item)]]
    /\ UNCHANGED <<table, puts, ConcOthers>>

CreateCalledBySome == \E c \in Creators : CreateCalled(c)
CreatePutItemBySome == \E c \in Creators : CreatePutItem(c)
CreateEndsForSome == \E c \in Creators : CreateEnds(c)

NextConcurrent ==
    \/ CreateCalledBySome
    \/ CreatePutItemBySome
    \/ CreateEndsForSome

SpecConcurrent == Init /\ [][NextConcurrent]_vars

----------------------------------------------------------------------------
(* Concurrent updates of one stored item: BaseRepository.update over       *)
(* DynamoDBClient.update_item (core/database.py).  An update reads the     *)
(* clock when it is called; the store applies one SET expression at a time. *)

\* a dict as its (key, value) pairs in insertion order: d[k] = v
DictSet(d, k, v) ==
    IF \E i \in DOMAIN d : d[i][1] = k
    THEN [i \in DOMAIN d |-> IF d[i][1] = k THEN <<k, v>> ELSE d[i]]
    ELSE Append(d, <<k, v>>)

DictKeys(d) == {d[i][1] : i \in DOMAIN d}

DictGet(d, k) == d[CHOOSE i \in DOMAIN d : d[i][1] = k][2]

\* the store's effect of "SET #k = :k, ..." on an item
SetExpression(item, updates) ==
    [k \in (DOMAIN item) \cup DictKeys(updates) |->
        IF k \in DictKeys(updates) THEN DictGet(updates, k) ELSE item[k]]

\* DynamoDBClient.update_item, from what the store did
DynamoDBClientUpdateItemNoValidationError(outcome) ==
    IF outcome = "ok" THEN "returned"
    ELSE IF IsClientError(outcome) THEN "DynamoDBError: Failed to update item"
    ELSE "DynamoDBError: Unexpected error"

DynamoDBClientUpdateItem(outcome) ==
    IF outcome = "ok" THEN "returned"
    ELSE IF outcome = "ConditionalCheckFailedException"
         THEN "ValidationError: Conditional check failed"
    ELSE IF IsClientError(outcome) THEN "DynamoDBError: Failed to update item"
    ELSE "DynamoDBError: Unexpected error"

\* the updates a caller passes
UpdateSamples ==
    { << <<"name", <<"b">>>> >>,
      << <<"name", <<"c">>>>, <<"village", <<"v">>>> >>,
      << <<"updated_at", IsoFormat(0)>>, <<"village", <<"w">>>> >> }

UpdOthers == <<settings, req, resp, storeCalls, deployVars, modelVars,
               utilVars, batchVars, instVars, concVars, svcVars>>

\* BaseRepository.create of an item that is not stored yet
RepositoryCreate ==
    /\ \E id \in FarmerIds :
          /\ PutItemOutcome(table, id, "none") = "ok"
          /\ table' = [table EXCEPT ![id] =
                           Some([id |-> id, name |-> <<"a">>, village |-> <<"u">>,
                                 created_at |-> IsoFormat(now),
                                 updated_at |-> IsoFormat(now)])]
    /\ applied' = <<>>
    /\ UNCHANGED <<updaters, repo, now, UpdOthers>>

\* BaseRepository.delete of a stored item
RepositoryDelete ==
    /\ \E id \in FarmerIds :
          /\ table[id] # None
          /\ table' = [table EXCEPT ![id] = None]
    /\ applied' = <<>>
    /\ UNCHANGED <<updaters, repo, now, UpdOthers>>

\* BaseRepository.update is called: it stamps the updates it was given
UpdateCalled(u) ==
    /\ updaters[u].pc = "idle"
    /\ \E id \in FarmerIds, updates \in UpdateSamples :
          updaters' = [updaters EXCEPT ![u] =
              [pc |-> "update_item", id |-> id,
               updates |-> DictSet(updates, "updated_at", IsoFormat(now))]]
    /\ UNCHANGED <<table, applied, repo, now, UpdOthers>>

\* the store evaluates the update, and the call returns or raises
UpdateItem(u) ==
    /\ updaters[u].pc = "update_item"
    /\ \E fault \in StoreFaults :
          LET id == updaters[u].id
              outcome == UpdateItemOutcome(table, id, fault)
          IN /\ table' = IF outcome = "ok"
                         THEN [table EXCEPT ![id] =
                                  Some(SetExpression(table[id][1],
                                                     updaters[u].updates))]
                         ELSE table
             /\ applied' = IF outcome = "ok" THEN Append(applied, u) ELSE applied
             /\ updaters' = [updaters EXCEPT ![u] =
                    [pc |-> "ended", id |-> id, updates |-> updaters[u].updates,
                     found |-> table[id] # None, fault |-> fault,
                     outcome |-> DynamoDBClientUpdateItem(outcome)]]
    /\ UNCHANGED <<repo, now, UpdOthers>>

UpdateCalledBySome == \E u \in Updaters : UpdateCalled(u)
UpdateItemForSome == \E u \in Updaters : UpdateItem(u)

NextUpdates ==
    \/ Tick
    \/ RepositoryCreate
    \/ RepositoryDelete
    \/ UpdateCalledBySome
    \/ UpdateItemForSome

SpecUpdates == Init /\ [][NextUpdates]_vars

----------------------------------------------------------------------------
(* core/database.py DynamoDBClient: put_item, update_item and delete_item  *)
(* called one at a time against the stored items.                          *)

\* DynamoDBClient.delete_item with a condition_expression: True, False, or
\* DynamoDBError raised
DynamoDBClientDeleteItem(outcome) ==
    IF outcome = "ok" THEN "True"
    ELSE IF outcome = "ConditionalCheckFailedException" THEN "False"
    ELSE "DynamoDBError"

RepoOthers == <<settings, req, resp, storeCalls, deployVars, modelVars,
                utilVars, batchVars, instVars, concVars, clockVars, svcVars,
                updaters, applied>>

\* put_item(table, item), with condition_expression
\* "attribute_not_exists(id)" or without one
ClientPutItem ==
    /\ \E id \in FarmerIds, fault \in StoreFaults, name \in {<<"a">>, <<"b">>},
          conditional \in BOOLEAN :
          LET outcome == IF conditional THEN PutItemOutcome(table, id, fault)
                         ELSE IF fault # "none" THEN fault ELSE "ok"
          IN /\ table' = IF outcome = "ok"
                         THEN [table EXCEPT ![id] =
                                  Some([id |-> id, name |-> name,
                                        village |-> <<"u">>,
                                        created_at |-> IsoFormat(0),
                                        updated_at |-> IsoFormat(0)])]
                         ELSE table
             /\ repo' = [op |-> "put_item", conditional |-> conditional,
                         outcome |-> outcome,
                         result |-> DynamoDBClientPutItem(outcome)]
    /\ UNCHANGED RepoOthers

\* update_item(table, key, "SET ...", condition_expression="attribute_exists(id)")
ClientUpdateItem ==
    /\ \E id \in FarmerIds, fault \in StoreFaults, updates \in UpdateSamples :
          LET outcome == UpdateItemOutcome(table, id, fault)
          IN /\ table' = IF outcome = "ok"
                         THEN [table EXCEPT ![id] =
                                  Some(SetExpression(table[id][1], updates))]
                         ELSE table
             /\ repo' = [op |-> "update_item", conditional |-> TRUE,
                         outcome |-> outcome,
                         result |-> DynamoDBClientUpdateItem(outcome)]
    /\ UNCHANGED RepoOthers

\* delete_item(table, key), with condition_expression
\* "attribute_exists(id)" or without one
ClientDeleteItem ==
    /\ \E id \in FarmerIds, fault \in StoreFaults, conditional \in BOOLEAN :
          LET outcome == IF conditional THEN UpdateItemOutcome(table, id, fault)
                         ELSE IF fault # "none" THEN fault ELSE "ok"
          IN /\ table' = IF outcome = "ok" THEN [table EXCEPT ![id] = None]
                         ELSE table
             /\ repo' = [op |-> "delete_item", conditional |-> conditional,
                         outcome |-> outcome,
                         result |-> DynamoDBClientDeleteItem(outcome)]
    /\ UNCHANGED RepoOthers

\* get_item(table, key): the item, None, or DynamoDBError raised
ClientGetItem ==
    /\ \E id \in FarmerIds, fault \in StoreFaults :
          repo' = [op |-> "get_item", conditional |-> FALSE,
                   outcome |-> IF fault # "none" THEN fault ELSE "ok",
                   result |-> IF fault # "none" THEN "DynamoDBError"
                              ELSE IF table[id] = None THEN "None"
                              ELSE "item"]
    /\ UNCHANGED <<table, RepoOthers>>

NextPersistence ==
    \/ ClientGetItem
    \/ ClientPutItem
    \/ ClientUpdateItem
    \/ ClientDeleteItem

SpecPersistence == Init /\ [][NextPersistence]_vars

----------------------------------------------------------------------------
(* api/v1/endpoints: the routers main.py does not include.  A handler is   *)
(* named by its function; a request is one the framework hands to it.      *)

\* the handlers whose body is a single raise HTTPException(501, ...)
NotImplementedHandlers ==
    {"register_user", "login_user", "refresh_token", "get_user_profile",
     "send_message", "get_conversation", "get_farmer_conversations",
     "delete_conversation", "translate_message",
     "create_farmer_profile", "get_farmer_profile", "update_farmer_profile",
     "delete_farmer_profile", "get_farmer_crops", "add_farmer_crop",
     "get_recommendation", "get_recommendation_by_id",
     "get_farmer_recommendations", "submit_feedback",
     "get_recommendation_history",
     "transcribe_audio", "synthesize_speech", "voice_conversation",
     "compress_audio",
     "send_whatsapp_message", "process_text_message", "process_image_message",
     "process_voice_message", "get_message_status", "handle_group_message"}

RequestSamples == {"no parameters", "known id", "unknown id", "with body"}

\* Variant of NotImplemented that answers as if the work were done
NotImplementedAsOk == [status |-> 200, body |-> [detail |-> "not yet implemented"]]

\* raise HTTPException(status_code=501, detail="... not yet implemented")
NotImplemented == HTTPException(501, "not yet implemented")

NotImplementedHandler ==
    \E handler \in NotImplementedHandlers, request \in RequestSamples :
        /\ req' = [op |-> "extended", handler |-> handler, request |-> request]
        /\ resp' = Answer("extended", NotImplemented)
        /\ storeCalls' = <<>>
        /\ UNCHANGED <<settings, table, deployVars, modelVars, extVars>>

\* endpoints/auth.py: POST /logout
LogoutUser ==
    \E request \in RequestSamples :
        /\ req' = [op |-> "extended", handler |-> "logout_user",
                   request |-> request]
        /\ resp' = Answer("extended",
                       [status |-> 200,
                        body |-> [message |-> "Logout successful"]])
        /\ storeCalls' = <<>>
        /\ UNCHANGED <<settings, table, deployVars, modelVars, extVars>>

\* endpoints/whatsapp.py: POST /webhook, whose body is JSON or is not
HandleWebhook ==
    \E json \in BOOLEAN :
        /\ req' = [op |-> "extended", handler |-> "handle_webhook",
                   request |-> IF json THEN "with body" ELSE "no JSON"]
        /\ resp' = Answer("extended",
                       IF json
                       THEN [status |-> 200, body |-> [status |-> "received"]]
                       ELSE HTTPException(500, "Webhook processing failed"))
        /\ storeCalls' = <<>>
        /\ UNCHANGED <<settings, table, deployVars, modelVars, extVars>>

\* endpoints/health.py: GET /, /ready and /live
ExtendedHealthCheck ==
    \E h \in {<<"health_check", "healthy">>, <<"readiness_check", "ready">>,
               <<"liveness_check", "alive">>} :
        /\ req' = [op |-> "extended", handler |-> h[1],
                   request |-> "no parameters"]
        /\ resp' = Answer("extended",
                       [status |-> 200,
                        body |-> [status |-> h[2],
                                  service |-> "krishimitra-platform"]])
        /\ storeCalls' = <<>>
        /\ UNCHANGED <<settings, table, deployVars, modelVars, extVars>>

\* GET /categories and GET /languages return a literal whose values are not
\* all lists; a framework that validates the return value against the
\* annotation dict[str, list] raises instead, and the catch-all answers
StaticListing ==
    \E handler \in {"get_recommendation_categories", "get_supported_languages"},
       validated \in BOOLEAN :
        /\ req' = [op |-> "extended", handler |-> handler,
                   request |-> "no parameters"]
        /\ resp' = Answer("extended",
                       IF validated THEN GlobalExceptionResponse
                       ELSE [status |-> 200, body |-> [listing |-> handler]])
        /\ storeCalls' = <<>>
        /\ UNCHANGED <<settings, table, deployVars, modelVars, extVars>>

\* endpoints/whatsapp.py: GET /webhook, with its own token
ExtendedVerifyWebhook ==
    \E mode \in ModeSamples, challenge \in ChallengeSamples,
       token \in TokenSamples \cup {"krishimitra-webhook-token"} :
        /\ req' = [op |-> "extended", handler |-> "verify_webhook",
                   request |-> "hub parameters", mode |-> mode,
                   token |-> token]
        /\ resp' = Answer("extended",
                       IF mode = "subscribe"
                          /\ token = "krishimitra-webhook-token"
                       THEN [status |-> 200,
                             body |-> JSONResponseRender(challenge)]
                       ELSE HTTPException(403, "Invalid verification token"))
        /\ storeCalls' = <<>>
        /\ UNCHANGED <<settings, table, deployVars, modelVars, extVars>>

NextExtended ==
    \/ NotImplementedHandler
    \/ LogoutUser
    \/ HandleWebhook
    \/ ExtendedHealthCheck
    \/ StaticListing
    \/ ExtendedVerifyWebhook

SpecExtended == Init /\ [][NextExtended]_vars

----------------------------------------------------------------------------
(* Properties of the farmers router, checked under Spec *)

\* C1: after a POST /api/v1/farmers answered 201, a GET of the generated id
\* against the table the POST left answers 200 with every field equal to the
\* one submitted, and created_at equal to updated_at.
C1_CreateThenGetRoundTrip ==
    (resp.op = "create" /\ resp.status = 201) =>
        LET id  == resp.body.farmer_id
            got == GetFarmerProfileResponse(id, "ok", GetItemResponse(table, id))
        IN /\ got.status = 200
           /\ got.body.farmer_id = id
           /\ got.body.name = req.profile.name
           /\ got.body.phone_number = req.profile.phone_number
           /\ got.body.location = req.profile.location
           /\ got.body.preferences = req.profile.preferences
           /\ got.body.farm_details = req.profile.farm_details
           /\ got.body.created_at = got.body.updated_at

\* C2: a list request with limit=500 never answers with more than 100 items,
\* however many items the scan reports.
C2_ListNeverExceedsCap ==
    (resp.op = "list" /\ req.limit = 500 /\ resp.status = 200) =>
        Len(resp.body) <= ScanCap

\* C3: when the conditional put fails because the id is already present,
\* POST /api/v1/farmers answers 409 and does not report the write as made.
C3_ConflictAnswers409 ==
    (/\ resp.op = "create"
     /\ storeCalls # <<>>
     /\ storeCalls[1].outcome = "ConditionalCheckFailedException") =>
        /\ resp.status = 409
        /\ resp.status # 201
        /\ resp.body = [detail |-> "Farmer profile already exists"]

C3_ConflictSeen ==
    /\ resp.op = "create"
    /\ storeCalls # <<>>
    /\ storeCalls[1].call = "put_item"
    /\ storeCalls[1].outcome = "ConditionalCheckFailedException"
    /\ table[storeCalls[1].key] # None
    /\ resp.status = 409

\* C4: GET /api/v1/farmers/{farmer_id} answers 404 whenever the store reports
\* no item for the id: never 200 and never 500.
C4_MissingFarmerAnswers404 ==
    (/\ resp.op = "get"
     /\ storeCalls[1].outcome = "ok"
     /\ table[req.farmer_id] = None) =>
        /\ resp.status = 404
        /\ resp.status \notin {200, 500}

C4_MissingFarmerSeen ==
    /\ resp.op = "get"
    /\ storeCalls[1].call = "get_item"
    /\ storeCalls[1].outcome = "ok"
    /\ storeCalls[1].n = 0
    /\ table[req.farmer_id] = None
    /\ resp.status = 404

\* C5: a create whose phone number is not +91, a digit 6-9 and nine more
\* digits is answered 422, and no store write is made for it.
C5_NonIndianPhoneRejected ==
    (resp.op = "create" /\ ~IndianMobilePattern(req.profile.phone_number)) =>
        /\ resp.status = 422
        /\ storeCalls = <<>>

----------------------------------------------------------------------------
(* Properties of the health and webhook routers, checked under SpecOps *)

Dependencies == {"dynamodb", "s3", "bedrock"}

\* C7: when a dependency probe of the detailed health check raises, the
\* endpoint still answers 200, reports that dependency "unhealthy" or "error"
\* and the overall status "degraded".
C7_HealthDegradesOnProbeFailure ==
    resp.op = "health" =>
        /\ resp.status = 200
        /\ \A dep \in Dependencies :
              req[dep] # "ok" =>
                  /\ resp.body.services[dep] \in {"unhealthy", "error"}
                  /\ resp.body.status = "degraded"

C7_ProbeRaisedSeen ==
    /\ resp.op = "health"
    /\ req.dynamodb = "Exception"
    /\ req.s3 = "ok"
    /\ req.bedrock = "ok"
    /\ resp.status = 200
    /\ resp.body.services.dynamodb = "error"
    /\ resp.body.status = "degraded"

\* C8: a verification request with hub.mode=subscribe and the configured
\* verify token answers 200 with a body equal, byte for byte, to the
\* challenge; a request with any other token answers 403.
C8_VerifyEchoesChallenge ==
    resp.op = "verify" =>
        IF Some(req.token) = settings.whatsapp_verify_token
        THEN req.mode = "subscribe" =>
                 (resp.status = 200 /\ resp.body = req.challenge)
        ELSE resp.status = 403

----------------------------------------------------------------------------
(* Properties of the deployment CLI, checked under SpecDeploy *)

\* the environment name was refused (the other arguments being in order)
EnvironmentRefused ==
    /\ dfailed = Some("parse_args")
    /\ dargs.account # None
    /\ dargs.environment \notin SupportedEnvs

AbortingSteps ==
    {"validate_environment", "check_prerequisites", "install_dependencies",
     "package_lambda_code", "bootstrap_cdk", "deploy_infrastructure"}

\* C9: a failure of any step (environment validation, prerequisite check,
\* dependency installation, packaging, bootstrap, deploy) aborts the run: no
\* later step is executed and the process exits with code 1.
C9_StepFailureExitsOne ==
    (EnvironmentRefused \/ (dfailed # None /\ dfailed[1] \in AbortingSteps)) =>
        /\ dexit = Some(1)
        /\ dpc = "exit"
        /\ dran[Len(dran)] = dfailed[1]

----------------------------------------------------------------------------
(* Properties of the domain models, checked under SpecModels *)

\* C6: no serialised farmer-profile response contains a government or
\* financial identifier, whatever values the profile was written with.
C6_NoIdentifierInResponse ==
    built.model = "models.FarmerProfileResponse" =>
        \A f \in GovernmentFinancialFields :
            \/ ToCamel(f) \notin DOMAIN built.out
            \/ built.out[ToCamel(f)] = None

FarmDetailsModels == {"core.FarmDetails", "models.FarmDetails", "api.FarmDetails"}

\* the construction has nothing else to reject
OtherwiseValid ==
    /\ built.total > 0
    /\ \A i \in 1..Len(built.areas) : built.areas[i] > 0
    /\ (built.model = "models.FarmDetails" =>
           (built.cultivable = None /\ built.irrigated = None))

\* C10: constructing farm details whose crop areas sum to more than the total
\* land area fails validation; with a sum equal to the total it succeeds.
C10_CropAreaWithinTotal ==
    built.model \in FarmDetailsModels =>
        /\ (SumAreas(built.areas) > built.total => ~built.ok)
        /\ ((SumAreas(built.areas) = built.total /\ OtherwiseValid) => built.ok)

CropInfoModels == {"core.CropInfo", "models.CropInfo", "api.CropInfo"}

\* C11: a crop whose expected harvest date is equal to or earlier than its
\* planting date fails validation, and a crop whose expected harvest date is
\* one day after its planting date is accepted.
C11_HarvestAfterPlanting ==
    (/\ built.model \in CropInfoModels
     /\ built.planting # None
     /\ built.harvest # None) =>
        /\ (built.harvest[1] <= built.planting[1] => ~built.ok)
        /\ (built.harvest[1] = built.planting[1] + 1 => built.ok)

----------------------------------------------------------------------------
(* Properties of the utility functions, checked under SpecUtils *)

\* C12: encrypting any string or JSON-serializable mapping and immediately
\* decrypting the result with the same key and context returns a value
\* deeply equal to the original.
C12_EncryptDecryptRoundTrip ==
    /\ Done("EncryptionService.decrypt") =>
           (util.out.ok /\ PyEq(util.out.value, util.original))
    /\ Done("EncryptionService.decrypt_dict") => PyEq(util.out, util.original)
    /\ Done("EncryptionManager.decrypt_data") =>
           (util.out.ok /\ util.out.value = util.original)

DigitsOf(s) == SelectSeq(s, IsDigit)

IsSuffix(s, t) ==
    Len(s) <= Len(t) /\ s = SubSeq(t, Len(t) - Len(s) + 1, Len(t))

MaskingFunctions == {"mask_sensitive_data", "DataMasking.mask_phone_number"}

\* C13: masking a phone number gives the same output every time it is
\* applied to the same number, and the digits of the masked output are at
\* most the last 4 digits of the number.
C13_MaskShowsLastFourOnly ==
    (util.fn \in MaskingFunctions /\ util.pc = "returned") =>
        /\ util.out = (IF util.fn = "mask_sensitive_data"
                       THEN MaskSensitiveDataPhone(util.data)
                       ELSE MaskPhoneNumber(util.data))
        /\ Len(DigitsOf(util.out)) <= 4
        /\ IsSuffix(DigitsOf(util.out), DigitsOf(util.data))

\* the digits and plus signs of what was typed
TypedDigits(phone) == SelectSeq(phone, DigitOrPlus)

AcceptedPrefixes == {<<>>, <<"+", "9", "1">>, <<"9", "1">>, <<"0">>}

\* what was typed is a mobile number of 6-9 and nine more digits, bare or
\* behind +91, 91 or 0
ReducibleToMobile(phone) ==
    \E prefix \in AcceptedPrefixes :
        /\ Len(TypedDigits(phone)) = Len(prefix) + 10
        /\ StartsWith(TypedDigits(phone), prefix)
        /\ MobilePattern(SubSeq(TypedDigits(phone), Len(prefix) + 1,
                                Len(TypedDigits(phone))))

LastTen(s) == SubSeq(s, Len(s) - 9, Len(s))

\* C14: a 10-digit mobile number starting with 6-9, typed bare or prefixed
\* with +91, 91 or 0, is normalized to +91 followed by its 10 digits (the
\* same string for every prefix); any other input is rejected.
C14_PhoneNormalization ==
    Done("validate_phone_number") =>
        IF ReducibleToMobile(util.data)
        THEN util.out = Valid(<<"+", "9", "1">> \o LastTen(TypedDigits(util.data)))
        ELSE util.out = Invalid

C14_BareNinetyOneSeen ==
    /\ Done("validate_phone_number")
    /\ util.data = <<"9", "1", "9", "8", "7", "6", "5", "4", "3", "2">>
    /\ util.out.valid
    /\ util.out.normalized = Some(<<"+", "9", "1">> \o util.data)

\* C15: the phone, PAN and PIN-code validators are idempotent: validating a
\* value that is the normalized output of the same validator succeeds and
\* returns that value unchanged.
C15_ValidatorsIdempotent ==
    (util.fn \in Validators /\ util.pc = "returned again") =>
        util.out = Valid(util.data)

C15_PrefixedPhoneRevalidated ==
    /\ util.fn = "validate_phone_number"
    /\ util.pc = "returned again"
    /\ util.data = <<"+", "9", "1", "9", "8", "7", "6", "5", "4", "3", "2", "1", "0">>
    /\ util.out.valid

\* The Verhoeff scheme itself: digits 0-4 are the rotations and 5-9 the
\* reflections of the dihedral group of order 10, and position i applies
\* the i-th power of the permutation (1 5 8 9 4 2 7 0)(3 6).
DihedralProduct(j, k) ==
    IF j < 5
    THEN IF k < 5 THEN (j + k) % 5 ELSE 5 + ((j + (k - 5)) % 5)
    ELSE IF k < 5 THEN 5 + (((j - 5) - k + 5) % 5)
         ELSE ((j - 5) - (k - 5) + 5) % 5

Sigma == <<1, 5, 7, 6, 2, 8, 3, 0, 9, 4>>

RECURSIVE SigmaPower(_, _)
SigmaPower(i, digit) ==
    IF i = 0 THEN digit ELSE Sigma[SigmaPower(i - 1, digit) + 1]

RECURSIVE VerhoeffWalk(_, _)
VerhoeffWalk(digits, i) ==
    IF i = 0 THEN 0
    ELSE DihedralProduct(VerhoeffWalk(digits, i - 1),
                         SigmaPower((i - 1) % 8,
                                    DigitVal(digits[Len(digits) - i + 1])))

PassesVerhoeff(digits) == VerhoeffWalk(digits, Len(digits)) = 0

Contains(s, needle) ==
    \E i \in 1..(Len(s) - Len(needle) + 1) :
        SubSeq(s, i, i + Len(needle) - 1) = needle

UnitTokens == {"karor", "lakh", "hazar", "C", "r", "L", "K", "M"}

HindiRupees(amount) ==
    /\ Done("format_currency")
    /\ util.locale = "hi-IN"
    /\ util.currency = "INR"
    /\ util.amount = amount

\* C17: in the Hindi locale 12,500,000 is rendered with "1.25" and the word
\* for crore, 250,000 with "2.50" and the word for lakh, and 500 as plain
\* "500.00" with no unit suffix.
C17_CurrencyThresholds ==
    /\ HindiRupees(12500000) =>
           Contains(util.out, <<"1", ".", "2", "5", " ", "karor">>)
    /\ HindiRupees(250000) =>
           Contains(util.out, <<"2", ".", "5", "0", " ", "lakh">>)
    /\ HindiRupees(500) =>
           /\ util.out = (IF util.include_symbol THEN <<"rupee-sign">> ELSE <<>>)
                             \o <<"5", "0", "0", ".", "0", "0">>
           /\ \A i \in 1..Len(util.out) : util.out[i] \notin UnitTokens

C17_CroreSeen ==
    /\ HindiRupees(12500000)
    /\ util.include_symbol
    /\ util.out = <<"rupee-sign", "1", ".", "2", "5", " ", "karor">>

----------------------------------------------------------------------------
(* Properties of the batch write, checked under SpecBatch *)

\* C18: within a chunk, unprocessed items are written again at most 3 times
\* after the first attempt, after waits of 1 s, 2 s and 4 s, each retry
\* asks for exactly what the attempt before left unprocessed, and no retry
\* follows an attempt that left nothing unprocessed.
C18_RetriesWithBackoff ==
    batch.pc \in {"while", "for", "returned"} =>
        /\ Len(batch.calls) <= 1 + 3
        /\ Len(batch.sleeps) <= 3
        /\ batch.sleeps = SubSeq(<<1, 2, 4>>, 1, Len(batch.sleeps))
        /\ Len(batch.sleeps) \in {Len(batch.calls) - 1, Len(batch.calls)}
        /\ \A j \in 1..Len(batch.sleeps) :
               /\ batch.calls[j].unprocessed > 0
               /\ j < Len(batch.calls) =>
                      batch.calls[j + 1].requested = batch.calls[j].unprocessed

C18_ThirdRetrySeen ==
    /\ batch.pc = "while"
    /\ batch.sleeps = <<1, 2, 4>>
    /\ Len(batch.calls) = 4
    /\ batch.unprocessed > 0

----------------------------------------------------------------------------
(* Properties of live model instances, checked under SpecInstances *)

\* C19: a model instance never holds a state that violates a cross-field
\* invariant: after construction and after any accepted assignments, the
\* crop areas sum to at most the total land area, a message's delivered
\* time is not before its sent time, and a feedback carries no
\* effectiveness rating while its status is not-implemented.
C19_InstancesStayValid ==
    /\ inst.model = "core.FarmDetails" =>
           SumAreas(inst.crops) <= inst.total_land_area
    /\ inst.model = "ConversationMessage" =>
           (inst.delivered_at = None \/ inst.delivered_at[1] >= inst.sent_at)
    /\ inst.model = "Feedback" =>
           ~(inst.effectiveness_rating # None
             /\ inst.implemented = "not_implemented")

----------------------------------------------------------------------------
(* Properties of concurrent creates, checked under SpecConcurrent *)

Ended(c) == creators[c].pc = "ended"
Succeeded(c) == Ended(c) /\ creators[c].outcome \in {"returned", "201"}
AlreadyExists(c) ==
    Ended(c) /\ creators[c].outcome \in {"ValidationError: Item already exists",
                                          "409: Farmer profile already exists"}

----------------------------------------------------------------------------
(* Properties of concurrent updates, checked under SpecUpdates *)

\* the i-th applied update is the last applied one that wrote key k
LastWriterOf(k, i) ==
    /\ k \in DictKeys(updaters[applied[i]].updates)
    /\ \A j \in DOMAIN applied :
          j > i => k \notin DictKeys(updaters[applied[j]].updates)

\* C21: concurrent updates of one existing item are all applied, none is
\* rejected because of another (an update the store evaluated fails its
\* condition only when the item does not exist), and every field holds the
\* value of the last applied update that wrote it.
C21_LastWriteWins ==
    /\ \A u \in Updaters :
          (updaters[u].pc = "ended" /\ updaters[u].found
               /\ updaters[u].fault = "none") =>
              updaters[u].outcome = "returned"
    /\ \A i \in DOMAIN applied :
          /\ updaters[applied[i]].outcome = "returned"
          /\ \E id \in FarmerIds :
                /\ id = updaters[applied[i]].id
                /\ table[id] # None
                /\ \A k \in DictKeys(updaters[applied[i]].updates) :
                      LastWriterOf(k, i) =>
                          table[id][1][k] =
                              DictGet(updaters[applied[i]].updates, k)

\* two updates raced: the one called first was written last, and its values
\* are the stored ones
C21_RaceSeen ==
    \E u, v \in Updaters :
        /\ applied = <<u, v>>
        /\ FromIsoFormat(DictGet(updaters[v].updates, "updated_at"))
              < FromIsoFormat(DictGet(updaters[u].updates, "updated_at"))
        /\ "village" \in DictKeys(updaters[u].updates)
        /\ "village" \in DictKeys(updaters[v].updates)
        /\ DictGet(updaters[u].updates, "village")
              # DictGet(updaters[v].updates, "village")
        /\ table[updaters[v].id][1].village
              = DictGet(updaters[v].updates, "village")

----------------------------------------------------------------------------
(* Properties of record timestamps, checked under SpecRecords *)

Timestamped == {"FarmerProfile", "ConversationHistory"}

\* C22: after any accepted change to a record, its updated_at is not earlier
\* than the moment of that change, and its created_at is the one it was
\* created with.
C22_UpdatedAtRefreshed ==
    inst.model \in Timestamped =>
        /\ inst.updated_at >= inst.changed_at
        /\ inst.created_at = inst.created_first

\* the latest sent time among the messages of a non-empty list
LatestSentAt(messages) ==
    CHOOSE t \in ClockReadings :
        /\ \E i \in DOMAIN messages : messages[i].sent_at = t
        /\ \A i \in DOMAIN messages : messages[i].sent_at <= t

\* the list holds exactly the added messages, in call order, each carrying
\* the conversation's id
HoldsAddedMessages ==
    /\ Len(inst.messages) = Len(inst.added)
    /\ \A i \in DOMAIN inst.messages :
          /\ inst.messages[i].message_id = inst.added[i].message_id
          /\ inst.messages[i].sent_at = inst.added[i].sent_at
          /\ inst.messages[i].conversation_id = inst.conversation_id

\* C30 as stated: after any sequence of add_message calls the list holds
\* the added messages in call order under the conversation's id, and
\* last_message_at is the latest sent time among them.
C30_LastMessageAtIsLatest ==
    (inst.model = "ConversationHistory" /\ inst.messages # <<>>) =>
        /\ HoldsAddedMessages
        /\ inst.last_message_at = Some(LatestSentAt(inst.messages))

\* C30, amended: after any sequence of add_message calls the list holds the
\* added messages in call order under the conversation's id, and
\* last_message_at is the sent time of the message added last.
C30_LastMessageAtIsLastAdded ==
    (inst.model = "ConversationHistory" /\ inst.messages # <<>>) =>
        /\ HoldsAddedMessages
        /\ inst.last_message_at =
               Some(inst.added[Len(inst.added)].sent_at)

\* a message sent earlier was added after one sent later
C30_OutOfOrderSeen ==
    /\ inst.model = "ConversationHistory"
    /\ Len(inst.messages) = 2
    /\ inst.added[1].conversation_id = "c2"
    /\ inst.messages[2].sent_at < inst.messages[1].sent_at
    /\ inst.last_message_at = Some(inst.messages[2].sent_at)

----------------------------------------------------------------------------
(* Properties of the session manager, checked under SpecSession *)

\* C23: over any sequence of session-manager operations the store client is
\* constructed at most once, and every access returns that one client.
C23_OneClientPerProcess ==
    /\ sm.constructed <= 1
    /\ sm.op \in {"initialize_database", "health_check", "get_session"} =>
           sm.returned = 1

----------------------------------------------------------------------------
(* Properties of table creation, checked under SpecSchemas *)

\* the tables handled so far are those before the one in hand
Handled ==
    {TableOrder[j] : j \in {k \in DOMAIN TableOrder :
                               k < ddl.i \/ ddl.pc = "returned"}}

\* one table at a time in the fixed order, existing tables skipped, created
\* tables waited on within the waiter's limits
OneAtATime ==
    /\ ddl.created \subseteq
           (Handled \cup {TableOrder[ddl.i]}) \cap {t \in TableNames :
                                                      ddl.first[t] = "absent"}
    /\ \A t \in TableNames :
          ddl.status[t] = "CREATING" =>
              \/ t \in ddl.timed_out
              \/ (t = TableOrder[ddl.i] /\ ddl.pc = "wait")
    /\ ddl.attempts < MaxAttempts
    /\ ddl.slept = Delay * ddl.attempts

----------------------------------------------------------------------------
(* Properties of a webhook delivery, checked under SpecWebhook *)

\* the acknowledgement a message's declared type calls for
AcknowledgementFor(message) ==
    IF message.type = "text"
    THEN <<"message-received",
           IF message.text[1] = "object" THEN message.text[2] ELSE "",
           "will-answer">>
    ELSE IF message.type = "image" THEN <<"photo-notice">>
    ELSE IF message.type = "audio" THEN <<"audio-notice">>
    ELSE <<"welcome">>

\* the sends so far answer the dispatched messages one for one, in order
SendsAnswer(positions) ==
    /\ Len(wa.sends) = Len(positions)
    /\ \A i \in DOMAIN wa.sends :
          /\ wa.sends[i].at = positions[i]
          /\ wa.sends[i].to = MessageAt(wa.payload, positions[i]).from
          /\ wa.sends[i].message =
                 AcknowledgementFor(MessageAt(wa.payload, positions[i]))

C26_ParseErrorInDetail ==
    (wa.pc = "responded" /\ wa.error # "none") =>
        /\ wa.resp.status = 500
        /\ Contains(wa.resp.body.detail, <<wa.error>>)

----------------------------------------------------------------------------
(* Properties of the extended routers, checked under SpecExtended *)

\* C27: every handler of the extended routers other than the webhook
\* verification answers every request with 501.
C27_AllButVerifyAnswer501 ==
    (resp.op = "extended" /\ req.handler # "verify_webhook") =>
        resp.status = 501

\* the handlers of the extended routers whose body is not a single raise
ImplementedHandlers ==
    {"verify_webhook", "handle_webhook", "logout_user",
     "health_check", "readiness_check", "liveness_check",
     "get_recommendation_categories", "get_supported_languages"}

\* C27, amended: every handler of the extended routers other than the
\* webhook verification, the webhook receiver, logout, the three health
\* checks and the two static listings answers every request with 501 and a
\* "not yet implemented" detail.
C27_StubsAnswer501 ==
    (resp.op = "extended" /\ req.handler \notin ImplementedHandlers) =>
        /\ resp.status = 501
        /\ resp.body = [detail |-> "not yet implemented"]

C27_StubAnswered ==
    /\ resp.op = "extended"
    /\ req.handler = "send_message"
    /\ req.request = "with body"
    /\ resp.status = 501

----------------------------------------------------------------------------
(* Properties of the catch-all exception handler, checked under Spec *)

\* the store call raised something no router catches
UnhandledRaised ==
    /\ resp.op \in {"create", "get", "list"}
    /\ storeCalls # <<>>
    /\ storeCalls[Len(storeCalls)].outcome # "ok"
    /\ ~IsClientError(storeCalls[Len(storeCalls)].outcome)

\* C28: an exception no router handles is answered with 500 and the body
\* {error, message, request_id}, none of which is the exception's detail.
C28_UnhandledIsUniform500 ==
    UnhandledRaised =>
        /\ resp.status = 500
        /\ DOMAIN resp.body = {"error", "message", "request_id"}
        /\ resp.body.error # storeCalls[Len(storeCalls)].outcome
        /\ resp.body.message # storeCalls[Len(storeCalls)].outcome
        /\ resp.body.request_id = None

C28_ConnectionErrorSeen ==
    /\ UnhandledRaised
    /\ resp.op = "get"
    /\ storeCalls[1].outcome = "EndpointConnectionError"
    /\ resp.body.error = "Internal server error"

----------------------------------------------------------------------------
(* Properties of the persistence client, checked under SpecPersistence *)

PersistenceErrors ==
    {"DynamoDBError", "DynamoDBError: Failed to update item",
     "DynamoDBError: Unexpected error"}

\* C29: a conditional-check failure makes put_item and delete_item return
\* False and update_item raise ValidationError; any other failure of the
\* store is raised as DynamoDBError.
C29_ConditionalFailureOutcomes ==
    repo.op # "none" =>
        /\ (repo.outcome = "ConditionalCheckFailedException"
                /\ repo.op \in {"put_item", "delete_item"}) =>
               repo.result = "False"
        /\ (repo.outcome = "ConditionalCheckFailedException"
                /\ repo.op = "update_item") =>
               repo.result = "ValidationError: Conditional check failed"
        /\ repo.outcome \notin {"ok", "ConditionalCheckFailedException"} =>
               repo.result \in PersistenceErrors

C29_UpdateOfMissingItemSeen ==
    /\ repo.op = "update_item"
    /\ repo.outcome = "ConditionalCheckFailedException"
    /\ repo.result = "ValidationError: Conditional check failed"
    /\ \A id \in FarmerIds : table[id] = None

====
